---- MODULE Spec2Model ----
(***************************************************************************)
(* A model of the PARAM comms trace replay: the per-rank replay engine of  *)
(* train/comms/pt/commsTraceReplay.py driving the PyTorchDistBackend of    *)
(* train/comms/pt/pytorch_dist_backend.py.                                 *)
(*                                                                         *)
(* Python's None is modelled by -1 for numbers and by a one-element        *)
(* sentinel sequence for lists.  A process group handle is modelled by the *)
(* ordered list of the global ranks it holds.  A backend work handle is a  *)
(* positive number; the backend's view (which handles were issued, which   *)
(* were waited on, which calls were made) is kept in the history variable  *)
(* backend.                                                                *)
(***************************************************************************)
EXTENDS Integers, Sequences, FiniteSets, TLC

\* ------------------------------------------------------------------------
\* Bounds of the model
\* ------------------------------------------------------------------------
\* longest trace replayed by the specifications Spec / SpecShrink
MaxTraceLen == 3
\* largest req id carried by a trace record
MaxReq == 2
\* longest duration (in timer ticks) of one timed region
MaxDur == 1
\* live world size (WORLD_SIZE of the run)
WorldSize == 2
\* largest number of measured replays (--num-replays)
MaxReplays == 2
MaxPrep == 4
MaxJitter == 1
\* largest --colls-per-batch
MaxBatch == 2
\* largest eg_id of a record, and the most calls of replaySingle in a run
MaxEgId == 2
MaxSingle == 3

\* ------------------------------------------------------------------------
\* Data model
\* ------------------------------------------------------------------------
None == -1
NoneSeq == <<None>>
NoneMarkers == <<"None">>

Min(a, b) == IF a <= b THEN a ELSE b

RECURSIVE SumSeq(_)
SumSeq(s) == IF Len(s) = 0 THEN 0 ELSE Head(s) + SumSeq(Tail(s))

\* a slice that keeps the whole list
TakeAll(s, n) == s

\* s[:n] of Python
Take(s, n) == SubSeq(s, 1, Min(n, Len(s)))

\* comms_utils.commsArgs(): every field starts as None
commsArgs ==
    [comms |-> "None", seqnum |-> None, req |-> None,
     inMsgSize |-> None, outMsgSize |-> None, dtype |-> "None",
     inSplit |-> NoneSeq, outSplit |-> NoneSeq,
     startTimeNs |-> None, pgId |-> None, groupRanks |-> NoneSeq,
     worldSize |-> None, markerStack |-> NoneMarkers, root |-> None,
     eg_id |-> None]

\* Dictionary helpers: a dict is a function; d[k] = v overrides or inserts.
EmptyDict == [k \in {} |-> None]
DictSet(d, k, v) == [x \in (DOMAIN d) \cup {k} |-> IF x = k THEN v ELSE d[x]]

\* ------------------------------------------------------------------------
\* Backend (pytorch_dist_backend.py)
\* ------------------------------------------------------------------------
\* The kinds that take the point-to-point signature (collectiveArgs, rank, ...)
P2PKinds == {"send", "recv", "isend", "irecv"}

\* Keys of backendFuncs.collectiveFunc: the collectives the backend class
\* implements plus the extra entries its constructor registers.
collectiveFunc ==
    {"all_reduce", "reduce", "all_to_all", "all_to_allv", "all_gather",
     "gather", "scatter", "reduce_scatter", "reduce_scatter_base",
     "all_gather_base", "broadcast", "barrier",
     "wait", "send", "recv", "isend", "irecv", "pt2pt"}

get_default_group == [i \in 1..WorldSize |-> i - 1]

\* dist.get_rank(group): position of the local rank in the group, -1 if absent
get_group_rank(group, global_rank) ==
    IF \E i \in 1..Len(group) : group[i] = global_rank
    THEN (CHOOSE i \in 1..Len(group) : group[i] = global_rank) - 1
    ELSE -1

\* One entry of the history of backend calls.
Call(name, group, h) == [call |-> name, group |-> group, h |-> h]

\* handle.wait(): the backend joins the work behind handle h
HandleWait(st, h) ==
    IF h = None THEN st
    ELSE [st EXCEPT !.be.completed = @ \cup {h},
                    !.be.calls = Append(@, Call("handle.wait", <<>>, h))]

RECURSIVE WaitAll(_, _)
WaitAll(st, hs) ==
    IF Len(hs) = 0 THEN st ELSE WaitAll(HandleWait(st, Head(hs)), Tail(hs))

\* The tail every collective method shares: issue the work on
\* collectiveArgs.group; if asyncOp, append the handle to waitObj; return the
\* handle (None for a synchronous call, which completes before it returns).
IssueWork(st, kind) ==
    LET h == st.be.nextHandle
        async == st.ca.asyncOp
    IN  [st EXCEPT !.be.nextHandle = h + 1,
                   !.be.issued = Append(@, h),
                   !.be.calls = Append(@, Call(kind, st.ca.group, h)),
                   !.be.completed = IF async THEN @ ELSE @ \cup {h},
                   !.ca.waitObj = IF async THEN Append(@, h) ELSE @,
                   !.ret = IF async THEN h ELSE None]

device_sync(st) ==
    [st EXCEPT !.be.calls = Append(@, Call("device_sync", <<>>, None))]

\* a completion that empties the queue and the registry and waits on nothing
complete_accel_ops_nowait(st, devSync) ==
    LET cleared == [st EXCEPT !.ca.waitObj = <<>>,
                              !.ca.waitObjIds = EmptyDict,
                              !.be.calls = Append(@, Call("complete_accel_ops", <<>>, None))]
    IN  IF devSync THEN device_sync(cleared) ELSE cleared

\* a completion that waits and empties the queue but keeps the registry
complete_accel_ops_keepIds(st, devSync) ==
    LET waited == WaitAll(st, st.ca.waitObj)
        cleared == [waited EXCEPT !.ca.waitObj = <<>>,
                                  !.be.calls = Append(@, Call("complete_accel_ops", <<>>, None))]
    IN  IF devSync THEN device_sync(cleared) ELSE cleared

complete_accel_ops(st, devSync) ==
    LET waited == WaitAll(st, st.ca.waitObj)
        cleared == [waited EXCEPT !.ca.waitObj = <<>>,
                                  !.ca.waitObjIds = EmptyDict,
                                  !.be.calls = Append(@, Call("complete_accel_ops", <<>>, None))]
    IN  IF devSync THEN device_sync(cleared) ELSE cleared

complete_single_op(st) ==
    IF Len(st.ca.waitObj) > 0
    THEN LET waitReq == Head(st.ca.waitObj)
             popped == [st EXCEPT !.ca.waitObj = Tail(@),
                                  !.waited = waitReq]
         IN  device_sync(HandleWait(popped, waitReq))
    ELSE st

wait(st) ==
    LET r == IF DOMAIN st.ca.waitObjIds = {}
             THEN complete_single_op(st)
             ELSE IF st.ca.collectiveId \in DOMAIN st.ca.waitObjIds
                  THEN LET waitObj == st.ca.waitObjIds[st.ca.collectiveId]
                       IN  HandleWait([st EXCEPT !.waited = waitObj], waitObj)
                  ELSE st
    IN  [r EXCEPT !.ret = None]

barrier(st) == IssueWork(st, "barrier")

sync_barrier(st) == complete_accel_ops(barrier(st), TRUE)

\* collectiveFunc[collName](collectiveArgs, retFlag=True), and in warm-up
\* collectiveFunc[collName](collectiveArgs): the one call shape the replay
\* uses for every kind.  send/recv/isend/irecv declare a second required
\* positional parameter (dst_rank / src_rank) which this call does not bind,
\* so Python raises TypeError before the method body runs.
callCollective(st, collName) ==
    IF collName \in P2PKinds THEN [st EXCEPT !.err = "TypeError"]
    ELSE IF collName = "wait" THEN wait(st)
    ELSE IF collName = "pt2pt" THEN [st EXCEPT !.ret = None]
    ELSE IssueWork(st, collName)

\* ------------------------------------------------------------------------
\* State of one rank
\* ------------------------------------------------------------------------
VARIABLES
    in_trace,           \* readTrace: the decoded JSON array, a list of dicts
    newCommsTrace,      \* extractCommsInfo: the records converted so far
    comms_trace,        \* self.comms_trace: the list of commsArgs
    is_dry_run,         \* --dry-run
    shrink,             \* --auto-shrink
    max_msg_cnt,        \* --max-msg-cnt (0: no limit until initTraceStat)
    is_blocking,        \* --z
    do_warm_up,         \* --do-warm-up
    allowList,          \* --allow-ops: the names given, then the resolved list
    num_replays,        \* --num-replays
    global_rank,        \* comms_world_info.global_rank
    timerMax,           \* the longest reading, in ticks, a timer gives in this run
    groupRanks,         \* commsParams.groupRanks, in insertion order
    collLat,            \* kind -> list of latencies
    collInMsgSizes,     \* kind -> list of input element counts
    collOutMsgSizes,    \* kind -> list of output element counts
    collInUniMsgSizes,  \* kind -> set of input element counts
    collOutUniMsgSizes, \* kind -> set of output element counts
    comms_blocks,       \* marker -> list of records
    traceWithPerf,      \* the output trace
    totalCommsLatency,
    collectiveArgs,     \* the CollectiveArgs bundle shared with the backend
    backend,            \* history: what the backend was asked to do
    pc,                 \* where runBench / benchTime stands
    cnt,                \* ops of the current pass already visited
    replayIter,         \* measured replays already finished
    err,                \* the exception that ended the run, "" if none
    dispatchLog,        \* history: every dispatch made, in order
    waitLog,            \* history: every wait op replayed in a measured pass
    rebalance_policy,   \* --rebalance-policy, lower-cased
    rebalanceLog,       \* history: every call of rebalanceSplit, in order
    use_timestamp,      \* --use-timestamp
    prepMax,            \* what prepComms takes, in ticks, when it is slow
    elapsed,            \* time.monotonic_ns() - startTime, in ticks of 10 ms
    paceLog,            \* history: when each measured dispatch started
    lastOp,             \* history: what the last loop iteration did
    reported,           \* reportBenchTime has printed the statistics
    outFile,            \* what writeCommDetails wrote, <<>> if it wrote nothing
    colls_per_batch,    \* --colls-per-batch, -1 when not given
    coll_in_batch_num,  \* replayTrace: the waits replayed in the open batch
    batch_begin,        \* replayTrace: time.monotonic() as last taken, in ticks
    batchLat,           \* self.batchLat, in milliseconds
    batchFirst,         \* history: the first op replayed since the last batch
                        \* closed, the waits and the clock readings since
    batchLog,           \* history: one entry for each batch latency
    eg_to_tensors,      \* self.eg_to_tensors: eg_id -> the stored buffer pair
    allocated,          \* the buffer pairs prepComm has allocated so far
    singleLog,          \* history: one entry for each call of replaySingle
    rankState           \* for each rank of the job: where it is in its run, its
                        \* collectiveArgs, the blocking calls it has yet to return from

args == <<is_dry_run, shrink, is_blocking, do_warm_up, num_replays, global_rank,
         timerMax, rebalance_policy, use_timestamp, prepMax>>
loader == <<in_trace, newCommsTrace>>
stats == <<collLat, collInMsgSizes, collOutMsgSizes, collInUniMsgSizes,
           collOutUniMsgSizes, comms_blocks,
           traceWithPerf, totalCommsLatency>>
hist == <<dispatchLog, waitLog, lastOp>>
rebal == <<rebalanceLog>>
pace == <<elapsed, paceLog>>
io == <<reported, outFile>>
batch == <<colls_per_batch, coll_in_batch_num, batch_begin, batchLat, batchFirst,
           batchLog>>
cache == <<eg_to_tensors, allocated, singleLog>>
vars == <<rankState, cache, batch, loader, io, rebal, pace, comms_trace, args, max_msg_cnt, allowList, groupRanks, stats,
          collectiveArgs, backend, pc, cnt, replayIter, err, hist>>

\* comms_utils.paramToCommName: canonical kind names map to themselves,
\* known aliases to their canonical name, anything else is kept as given.
paramToCommName(name) ==
    CASE name \in {"alltoallv", "all2allv"} -> "all_to_allv"
      [] name \in {"alltoall", "all2all"} -> "all_to_all"
      [] name = "allreduce" -> "all_reduce"
      [] name = "allgather" -> "all_gather"
      [] OTHER -> name

Markers(curComm) ==
    IF curComm.markerStack # NoneMarkers THEN curComm.markerStack ELSE <<>>

\* ------------------------------------------------------------------------
\* initTraceStat
\* ------------------------------------------------------------------------
RECURSIVE StatBlocks(_, _, _, _)
StatBlocks(blocks, curBlocks, entry, dry) ==
    IF Len(curBlocks) = 0 THEN blocks
    ELSE LET b == Head(curBlocks)
             have == IF b \in DOMAIN blocks THEN blocks ELSE DictSet(blocks, b, <<>>)
             next == IF dry THEN DictSet(have, b, Append(have[b], entry)) ELSE have
         IN  StatBlocks(next, Tail(curBlocks), entry, dry)

\* an entry that names the kind and nothing else
statEntryBare(collName, curComm) ==
    [comms |-> collName, in_msg_size |-> None, out_msg_size |-> None]

\* the entry a dry run appends to the block table
statEntry(collName, curComm) ==
    IF collName \notin {"wait", "barrier"}
    THEN [comms |-> collName, in_msg_size |-> curComm.inMsgSize,
          out_msg_size |-> curComm.outMsgSize]
    ELSE [comms |-> collName, in_msg_size |-> None, out_msg_size |-> None]

\* the body of the statistics loop for one record
StatOne(st, curComm, dry) ==
    LET collName == paramToCommName(curComm.comms)
        sized == curComm.inMsgSize # None
        isNew == collName \notin DOMAIN st.collLat
        lat1 == IF isNew THEN DictSet(st.collLat, collName, <<>>) ELSE st.collLat
        in1 == IF isNew /\ sized THEN DictSet(st.collInMsgSizes, collName, <<>>)
               ELSE st.collInMsgSizes
        out1 == IF isNew /\ sized THEN DictSet(st.collOutMsgSizes, collName, <<>>)
                ELSE st.collOutMsgSizes
        inU1 == IF isNew /\ sized THEN DictSet(st.collInUniMsgSizes, collName, {})
                ELSE st.collInUniMsgSizes
        outU1 == IF isNew /\ sized THEN DictSet(st.collOutUniMsgSizes, collName, {})
                 ELSE st.collOutUniMsgSizes
        keyErr == sized /\ collName \notin DOMAIN in1
        entry == statEntry(collName, curComm)
    IN  IF st.err # "" THEN st
        ELSE IF keyErr THEN [st EXCEPT !.err = "KeyError"]
        ELSE [collLat |-> lat1,
              collInMsgSizes |->
                  IF sized THEN DictSet(in1, collName, Append(in1[collName], curComm.inMsgSize))
                  ELSE in1,
              collOutMsgSizes |->
                  IF sized THEN DictSet(out1, collName, Append(out1[collName], curComm.outMsgSize))
                  ELSE out1,
              collInUniMsgSizes |->
                  IF sized THEN DictSet(inU1, collName, inU1[collName] \cup {curComm.inMsgSize})
                  ELSE inU1,
              collOutUniMsgSizes |->
                  IF sized THEN DictSet(outU1, collName, outU1[collName] \cup {curComm.outMsgSize})
                  ELSE outU1,
              comms_blocks |-> StatBlocks(st.comms_blocks, Markers(curComm), entry, dry),
              err |-> ""]

RECURSIVE StatLoop(_, _, _)
StatLoop(st, trace, dry) ==
    IF Len(trace) = 0 THEN st
    ELSE StatLoop(StatOne(st, Head(trace), dry), Tail(trace), dry)

\* max_msg_cnt after initTraceStat: 0 means the whole trace
effectiveMaxMsgCnt(trace, maxCnt) == IF maxCnt = 0 THEN Len(trace) ELSE maxCnt

initTraceStat(trace, maxCnt, dry) ==
    StatLoop([collLat |-> EmptyDict, collInMsgSizes |-> EmptyDict,
              collOutMsgSizes |-> EmptyDict, collInUniMsgSizes |-> EmptyDict,
              collOutUniMsgSizes |-> EmptyDict, comms_blocks |-> EmptyDict,
              err |-> ""],
             Take(trace, effectiveMaxMsgCnt(trace, maxCnt)), dry)

\* ------------------------------------------------------------------------
\* setBench and PyTorchDistBackend.initialize_backend
\* ------------------------------------------------------------------------
\* commsParams.groupRanks[pgId] = groupRanks on an insertion-ordered dict
OrderedSet(d, k, v) ==
    IF \E i \in 1..Len(d) : d[i].pgId = k
    THEN [i \in 1..Len(d) |-> IF d[i].pgId = k THEN [pgId |-> k, ranks |-> v] ELSE d[i]]
    ELSE Append(d, [pgId |-> k, ranks |-> v])

RECURSIVE recordGroupRanks(_, _)
recordGroupRanks(d, trace) ==
    IF Len(trace) = 0 THEN d
    ELSE LET curComm == Head(trace)
         IN  recordGroupRanks(
                 IF curComm.comms = "init"
                 THEN OrderedSet(d, curComm.pgId, curComm.groupRanks)
                 ELSE d,
                 Tail(trace))

\* the "create additional groups" loop; g = [groups, err, stop]
RECURSIVE createGroups(_, _)
createGroups(g, items) ==
    IF Len(items) = 0 \/ g.stop \/ g.err # "" THEN g
    ELSE LET it == Head(items)
         IN  IF it.ranks = NoneSeq
             THEN [g EXCEPT !.err = "TypeError"]
             ELSE IF Len(it.ranks) > WorldSize
             THEN [g EXCEPT !.groups = EmptyDict, !.stop = TRUE]
             ELSE createGroups(
                      [g EXCEPT !.groups =
                          DictSet(@, it.pgId,
                                  IF Len(it.ranks) = WorldSize
                                  THEN get_default_group ELSE it.ranks)],
                      Tail(items))

initialize_backend(items) ==
    LET g == createGroups([groups |-> EmptyDict, err |-> "", stop |-> FALSE], items)
    IN  [groups |-> IF DOMAIN g.groups = {}
                    THEN DictSet(EmptyDict, 0, get_default_group) ELSE g.groups,
         err |-> g.err]

\* the set of collectives to be replayed
resolveAllowList(names) ==
    IF names \in {{"all"}, {"default"}, {"*"}} THEN collectiveFunc
    ELSE {paramToCommName(op) : op \in names}

\* ------------------------------------------------------------------------
\* getCommGroupInfo, prepComms
\* ------------------------------------------------------------------------
HasGroupRanks(d, k) == \E i \in 1..Len(d) : d[i].pgId = k

\* [rank, err]: the local rank's position in the op's group
getCommGroupInfo(ca, curComm, grpRanks, shrinkOn, rank) ==
    IF curComm.pgId # None /\ ~shrinkOn
    THEN IF curComm.pgId \in DOMAIN ca.groups /\ HasGroupRanks(grpRanks, curComm.pgId)
         THEN [rank |-> get_group_rank(ca.groups[curComm.pgId], rank), err |-> ""]
         ELSE [rank |-> None, err |-> "KeyError"]
    ELSE [rank |-> get_group_rank(get_default_group, rank), err |-> ""]

\* a recorded world size that is always the live one
realWorldSizeLive(curComm, commOp, cur_world_size) == cur_world_size

\* the recorded world size the shrink divides by
realWorldSize(curComm, commOp, cur_world_size) ==
    IF curComm.worldSize # None THEN curComm.worldSize
    ELSE IF commOp = "all_to_allv"
         THEN IF Len(curComm.inSplit) > 0 THEN Len(curComm.inSplit)
              ELSE IF Len(curComm.outSplit) > 0 THEN Len(curComm.outSplit)
              ELSE cur_world_size
         ELSE cur_world_size

\* a rescaling that divides by the recorded world size and stops there
newNumElemsUnscaled(size, real_world_size, cur_world_size) ==
    size \div real_world_size

\* (size // real_world_size) * cur_world_size
newNumElems(size, real_world_size, cur_world_size) ==
    (size \div real_world_size) * cur_world_size

\* the auto-shrink block of prepComms: the record with its sizes rescaled
shrinkComm(curComm, commOp, cur_world_size) ==
    LET real_world_size == realWorldSize(curComm, commOp, cur_world_size)
        newIn0 == newNumElems(curComm.inMsgSize, real_world_size, cur_world_size)
        newOut0 == newNumElems(curComm.outMsgSize, real_world_size, cur_world_size)
        outSplit == IF curComm.outSplit # NoneSeq
                    THEN Take(curComm.outSplit, cur_world_size) ELSE <<>>
        inSplit == IF curComm.inSplit # NoneSeq
                   THEN Take(curComm.inSplit, cur_world_size) ELSE <<>>
    IN  IF commOp = "all_to_allv"
        THEN [curComm EXCEPT
                 !.outSplit = outSplit,
                 !.inSplit = inSplit,
                 !.inMsgSize = IF Len(inSplit) > 0 THEN SumSeq(inSplit) ELSE newIn0,
                 !.outMsgSize = IF Len(outSplit) > 0 THEN SumSeq(outSplit) ELSE newOut0]
        ELSE IF commOp = "all_gather"
        THEN [curComm EXCEPT !.inMsgSize = newIn0,
                             !.outMsgSize = newIn0 * cur_world_size]
        ELSE [curComm EXCEPT !.inMsgSize = newIn0, !.outMsgSize = newOut0]

\* paramCommsBench.prepComm: buffers of the record's element counts
prepComm(curComm) == [ip |-> curComm.inMsgSize, op |-> curComm.outMsgSize]

\* prepComms(curComm, commsParams): [ca, comm, tensors, err]; comm is curComm
\* as the call leaves it (the call writes the shrunk sizes into curComm).
prepComms(ca, curComm, shrinkOn) ==
    LET commOp == paramToCommName(curComm.comms)
        usePg == curComm.pgId # None /\ ~shrinkOn
        ca1 == IF usePg
               THEN [ca EXCEPT !.group = ca.groups[curComm.pgId],
                               !.world_size = curComm.worldSize]
               ELSE [ca EXCEPT !.group = get_default_group]
        zeroDiv == shrinkOn /\ realWorldSize(curComm, commOp, ca1.world_size) = 0
        comm1 == IF shrinkOn /\ ~zeroDiv
                 THEN shrinkComm(curComm, commOp, ca1.world_size) ELSE curComm
    IN  IF commOp \in {"wait", "barrier"}
        THEN [ca |-> ca, comm |-> curComm, tensors |-> [ip |-> None, op |-> None],
              err |-> ""]
        ELSE IF zeroDiv
        THEN [ca |-> ca1, comm |-> curComm, tensors |-> [ip |-> None, op |-> None],
              err |-> "ZeroDivisionError"]
        ELSE [ca |-> ca1, comm |-> comm1, tensors |-> prepComm(comm1), err |-> ""]

\* ------------------------------------------------------------------------
\* runComms
\* ------------------------------------------------------------------------
\* the op's dispatch inside the timed region: [st, supported]
dispatchColl(st, collName, curComm) ==
    IF collName \in collectiveFunc
    THEN callCollective(
             IF curComm.req # None
             THEN [st EXCEPT !.ca.collectiveId = curComm.req] ELSE st,
             collName)
    ELSE st

\* waitObjIds[curComm.req] = retObj; retObj is unbound if nothing was called
storeWaitObj(st, collName, curComm, blocking) ==
    IF curComm.req # None /\ ~blocking /\ collName # "wait"
    THEN IF collName \in collectiveFunc
         THEN [st EXCEPT !.ca.waitObjIds = DictSet(@, curComm.req, st.ret)]
         ELSE [st EXCEPT !.err = "UnboundLocalError"]
    ELSE st

\* a global latency that adds the barrier in either mode
globalLatencyAlwaysSynced(latency, barrierTime, blocking) ==
    latency + barrierTime

\* global_latency from latency and the duration of the post-barrier
globalLatency(latency, barrierTime, blocking) ==
    IF blocking THEN latency + barrierTime ELSE latency

\* runComms: [st, entry, latency, global_latency]; entry is the state the
\* dispatch started from (after the pre-barrier)
runComms(st0, collName, curComm, blocking, latency, barrierTime) ==
    LET pre == IF blocking THEN sync_barrier(st0) ELSE st0
        called == dispatchColl(pre, collName, curComm)
        done == IF called.err # "" THEN called
                ELSE complete_accel_ops(called, blocking)
        stored == IF done.err # "" THEN done
                  ELSE storeWaitObj(done, collName, curComm, blocking)
        post == IF stored.err = "" /\ blocking THEN sync_barrier(stored) ELSE stored
    IN  [st |-> post, entry |-> pre, latency |-> latency,
         global_latency |-> globalLatency(latency, barrierTime, blocking)]

\* ------------------------------------------------------------------------
\* The run: runBench -> benchTime -> warmUpBench / replayTrace
\* ------------------------------------------------------------------------
\* a pass over the whole trace
PassLenWhole == Len(comms_trace)

\* number of records a pass visits: len(comms_trace[:max_msg_cnt])
PassLen == Min(max_msg_cnt, Len(comms_trace))

\* a walk of the trace from its end
nextCommBackwards(trace, visited) == trace[Len(trace) - visited]

\* enumerate(self.comms_trace[: self.max_msg_cnt]): the record visited after
\* cnt records of the pass
nextComm(trace, visited) == trace[visited + 1]

\* the handles the backend issued and nobody waited on yet, oldest first
Outstanding(be) == SelectSeq(be.issued, LAMBDA h : h \notin be.completed)

\* the bundle and the backend history at the start of a loop iteration
Begin == [ca |-> collectiveArgs, be |-> [backend EXCEPT !.calls = <<>>],
          ret |-> None, err |-> "", waited |-> None]

\* a reset that leaves the group of the last op in place
resetCommsKeep(st) == st

\* resetComms
resetComms(st) == [st EXCEPT !.ca.group = get_default_group]

\* the handle of the work a dispatch issued, None if it issued none
IssuedBy(before, after) ==
    IF after.be.nextHandle > before.be.nextHandle THEN before.be.nextHandle ELSE None

Fail(e) ==
    /\ pc' = "error"
    /\ err' = e
    /\ UNCHANGED <<rankState, cache, batch, loader, io, rebal, pace, comms_trace, args, max_msg_cnt, allowList, groupRanks, stats,
                   collectiveArgs, backend, cnt, replayIter, hist>>

\* a report on every rank
reportsEveryRank(rank) == TRUE

\* if comms_world_info.global_rank == 0: self.reportBenchTime()
reports(rank) == rank = 0

\* runBench up to the call of benchTime (initTraceStat, then setBench) or, on
\* a dry run, to its end
Setup ==
    /\ pc = "runBench"
    /\ LET stat == initTraceStat(comms_trace, max_msg_cnt, is_dry_run)
           maxCnt == effectiveMaxMsgCnt(comms_trace, max_msg_cnt)
           ranks == recordGroupRanks(<<>>, Take(comms_trace, maxCnt))
           be == initialize_backend(ranks)
       IN  IF stat.err # "" THEN Fail(stat.err)
           ELSE IF ~is_dry_run /\ be.err # ""
           THEN \* raised in initialize_backend, after init_process_group
                /\ pc' = "error"
                /\ err' = be.err
                /\ backend' = [backend EXCEPT !.initialized = TRUE]
                /\ UNCHANGED <<rankState, cache, batch, loader, io, rebal, pace, comms_trace, args, max_msg_cnt,
                               allowList, groupRanks, stats, collectiveArgs, cnt,
                               replayIter, hist>>
           ELSE /\ max_msg_cnt' = maxCnt
                /\ collLat' = stat.collLat
                /\ collInMsgSizes' = stat.collInMsgSizes
                /\ collOutMsgSizes' = stat.collOutMsgSizes
                /\ collInUniMsgSizes' = stat.collInUniMsgSizes
                /\ collOutUniMsgSizes' = stat.collOutUniMsgSizes
                /\ comms_blocks' = stat.comms_blocks
                /\ IF is_dry_run
                   THEN /\ pc' = "done"
                        /\ reported' = reports(global_rank)
                        /\ UNCHANGED <<groupRanks, collectiveArgs, allowList,
                                       backend, outFile>>
                   ELSE /\ pc' = "warmUpBench"
                        /\ backend' = [backend EXCEPT !.initialized = TRUE]
                        /\ UNCHANGED io
                        /\ groupRanks' = ranks
                        /\ collectiveArgs' =
                               [collectiveArgs EXCEPT !.group = get_default_group,
                                                      !.groups = be.groups,
                                                      !.world_size = WorldSize,
                                                      !.asyncOp = ~is_blocking]
                        /\ allowList' = resolveAllowList(allowList)
                /\ UNCHANGED <<rankState, cache, batch, loader, rebal, pace, comms_trace, args, traceWithPerf,
                               totalCommsLatency, cnt, replayIter, err, hist>>

\* what the other ranks of a group may have recorded as in_msg_size
PeerSizes == {3}

\* the recorded in_msg_size of every rank at this position of the trace; the
\* local rank's is the one of its own record
PeerInputs(curComm, rebalancing) ==
    IF rebalancing
    THEN {f \in [0..(WorldSize - 1) -> PeerSizes \cup {curComm.inMsgSize}] :
              f[global_rank] = curComm.inMsgSize}
    ELSE {[r \in 0..(WorldSize - 1) |-> None]}

\* a reduction that leaves every rank with its own value
all_reduce_local(contribs, group, rank) == contribs[rank]

\* what all_reduce with op "sum" leaves in ipTensor on a rank of the group:
\* the sum of the values the ranks of the group put in (the values of the
\* model stay far below the range of the int tensor)
all_reduce_sum(contribs, group, rank) ==
    SumSeq([i \in 1..Len(group) |-> contribs[group[i]]])

\* n / d rounded down
roundDown(n, d) == n \div d

\* round(n / d) of Python 3: to the nearest integer, a tie to the even one
round(n, d) ==
    LET q == n \div d
        r == n % d
    IN  IF 2 * r < d THEN q
        ELSE IF 2 * r > d THEN q + 1
        ELSE IF q % 2 = 0 THEN q ELSE q + 1

\* one share short
equalSharesShort(size, world_size) ==
    [i \in 1..(world_size - 1) |-> size \div world_size]

\* [(size // world_size) for _ in range(world_size)]
equalShares(size, world_size) ==
    [i \in 1..world_size |-> size \div world_size]

\* the "equal" policy on one record, given the reduced value
equalSplit(curComm, world_size, agreed) ==
    LET newInSize == (world_size * world_size) * round(agreed, world_size * world_size)
        inMsgSize == newInSize \div world_size
    IN  [comm |-> [curComm EXCEPT !.inMsgSize = inMsgSize,
                                  !.outMsgSize = inMsgSize,
                                  !.inSplit = equalShares(inMsgSize, world_size),
                                  !.outSplit = equalShares(inMsgSize, world_size)],
         newInSize |-> newInSize]

\* rebalanceSplit, the branch of the "equal" policy: the all_reduce of the
\* recorded size, then the equal split of the rounded sum
rebalanceEqual(st, curComm, contribs, rank) ==
    LET st1 == callCollective(
                   [st EXCEPT !.ca.ipTensor = curComm.inMsgSize], "all_reduce")
        st2 == complete_accel_ops(st1, TRUE)
        agreed == all_reduce_sum(contribs, st.ca.group, rank)
        W == st.ca.world_size
        bad == IF curComm.inMsgSize = None \/ W = None THEN "TypeError"
               ELSE IF W = 0 THEN "ZeroDivisionError" ELSE ""
        eq == equalSplit(curComm, W, agreed)
    IN  IF bad # ""
        THEN [st |-> st2, comm |-> curComm, newInSize |-> None,
              agreed |-> None, err |-> bad]
        ELSE [st |-> [st2 EXCEPT !.ca.ipTensor = agreed], comm |-> eq.comm,
              newInSize |-> eq.newInSize, agreed |-> agreed, err |-> ""]

\* a rebalancing that runs the "equal" policy whatever the policy is called
rebalanceSplitAnyPolicy(st, curComm, contribs, rank, policy) ==
    rebalanceEqual(st, curComm, contribs, rank)

\* rebalanceSplit(curComm) on rank `rank`: [st, comm, newInSize, agreed, err]
rebalanceSplit(st, curComm, contribs, rank, policy) ==
    IF policy = "equal"
    THEN rebalanceEqual(st, curComm, contribs, rank)
    ELSE [st |-> st, comm |-> curComm, newInSize |-> None, agreed |-> None,
          err |-> ""]

\* what rebalanceSplit leaves on each rank of the group, every rank starting
\* from its own recorded in_msg_size
peersRebalanced(st, curComm, contribs, policy) ==
    [r \in {st.ca.group[k] : k \in 1..Len(st.ca.group)} |->
        LET x == rebalanceSplit(st, [curComm EXCEPT !.inMsgSize = contribs[r]],
                                contribs, r, policy)
        IN  [newInSize |-> x.newInSize, inMsgSize |-> x.comm.inMsgSize,
             outMsgSize |-> x.comm.outMsgSize, inSplit |-> x.comm.inSplit,
             outSplit |-> x.comm.outSplit]]

\* every collective is rebalanced
rebalanceAppliesEveryKind(commName, policy) ==
    commName \in collectiveFunc /\ policy # ""

\* the test of warmUpBench that guards the rebalancing
rebalanceApplies(commName, policy) ==
    commName \in collectiveFunc /\ commName = "all_to_allv" /\ policy # ""

\* the bundle once it holds the tensors prepComms returned
withTensors(st, prep) ==
    [st EXCEPT !.ca = [prep.ca EXCEPT !.ipTensor = prep.tensors.ip,
                                      !.opTensor = prep.tensors.op]]

\* warmUpBench, the end of an iteration: the call of the collective and
\* complete_accel_ops
warmUpDispatch(st0, commName, w) ==
    LET called == IF commName \in collectiveFunc
                  THEN callCollective(st0, commName) ELSE st0
    IN  [w EXCEPT !.err = called.err,
                  !.st = IF called.err # "" THEN called
                         ELSE complete_accel_ops(called, TRUE),
                  !.h = IssuedBy(st0, called),
                  !.ret = called.ret]

\* warmUpBench after rebalanceSplit returned rb: prepComms(commEntry) again
warmUpReprepare(sized, rb, prep, curComm, commName, contribs, shrinkOn, policy, w) ==
    IF rb.st.err # "" THEN [w EXCEPT !.err = rb.st.err]
    ELSE IF rb.err # "" THEN [w EXCEPT !.err = rb.err]
    ELSE LET prep2 == prepComms(rb.st.ca, prep.comm, shrinkOn)
         IN  IF prep2.err # "" THEN [w EXCEPT !.err = prep2.err]
             ELSE warmUpDispatch(
                      withTensors(rb.st, prep2), commName,
                      [w EXCEPT !.rebalanced = TRUE,
                                !.comm = prep2.comm,
                                !.record = rb.comm,
                                !.entry =
                                    [pass |-> "warmup", seqnum |-> curComm.seqnum,
                                     index |-> curComm.seqnum + 1,
                                     policy |-> policy,
                                     world_size |-> sized.ca.world_size,
                                     group |-> sized.ca.group,
                                     contribs |-> contribs,
                                     agreed |-> rb.agreed,
                                     newInSize |-> rb.newInSize,
                                     before |-> curComm,
                                     after |-> rb.comm,
                                     perRank |-> peersRebalanced(sized, curComm,
                                                                 contribs, policy)]])

\* warmUpBench, the rebalancing: world_size is set for it, rebalanceSplit is
\* given the record of the trace (curComm), the copy is prepared again
warmUpRebalance(prepared, prep, curComm, commName, contribs, rank, shrinkOn, policy, w) ==
    LET sized == [prepared EXCEPT !.ca.world_size =
                      IF curComm.pgId = None \/ shrinkOn
                      THEN WorldSize ELSE curComm.worldSize]
    IN  warmUpReprepare(sized,
                        rebalanceSplit(sized, curComm, contribs, rank, policy),
                        prep, curComm, commName, contribs, shrinkOn, policy, w)

\* warm-up without the copy: prepComms works on the record of the trace
warmUpRecordShared(curComm, commEntry) == commEntry

\* the record of the trace after prepComms(commEntry): commEntry is a
\* deepcopy, what prepComms writes into it does not reach the record
warmUpRecord(curComm, commEntry) == curComm

\* warmUpBench after the first prepComms(commEntry)
warmUpPrepared(prep, begin, curComm, commName, contribs, rank, shrinkOn, policy, w) ==
    IF prep.err # "" THEN [w EXCEPT !.err = prep.err]
    ELSE IF rebalanceApplies(commName, policy)
    THEN warmUpRebalance(withTensors(begin, prep), prep, curComm, commName, contribs,
                         rank, shrinkOn, policy, w)
    ELSE warmUpDispatch(withTensors(begin, prep), commName,
                        [w EXCEPT !.comm = prep.comm,
                                  !.record = warmUpRecord(curComm, prep.comm)])

\* the body of the loop of warmUpBench for one record: [err, skipped,
\* rebalanced, st, h, ret, comm (the copy as dispatched), record (the record
\* of the trace afterwards), entry (what rebalanceSplit did)]
warmUpComm(begin, curComm, contribs, grpRanks, allow, rank, shrinkOn, policy) ==
    LET commName == paramToCommName(curComm.comms)
        gi == getCommGroupInfo(begin.ca, curComm, grpRanks, shrinkOn, rank)
        w == [err |-> "", skipped |-> FALSE, rebalanced |-> FALSE, st |-> begin,
              h |-> None, ret |-> None, comm |-> curComm, record |-> curComm,
              entry |-> None]
    IN  IF gi.err # "" THEN [w EXCEPT !.err = gi.err]
        ELSE IF commName \notin allow \/ gi.rank = -1 THEN [w EXCEPT !.skipped = TRUE]
        ELSE warmUpPrepared(prepComms(begin.ca, curComm, shrinkOn), begin, curComm,
                            commName, contribs, rank, shrinkOn, policy, w)

\* one iteration of the loop of warmUpBench
WarmUpOp ==
    /\ pc = "warmUpBench" /\ do_warm_up /\ cnt < PassLen
    /\ \E contribs \in PeerInputs(nextComm(comms_trace, cnt),
                                  rebalanceApplies(
                                      paramToCommName(nextComm(comms_trace, cnt).comms),
                                      rebalance_policy)) :
       \E w \in {warmUpComm(Begin, nextComm(comms_trace, cnt), contribs, groupRanks,
                            allowList, global_rank, shrink, rebalance_policy)} :
       LET curComm == nextComm(comms_trace, cnt)
           commName == paramToCommName(curComm.comms)
       IN  IF w.err # "" THEN Fail(w.err)
           ELSE IF w.skipped
           THEN /\ cnt' = cnt + 1
                /\ lastOp' = [pass |-> "warmup", iter |-> 0, seqnum |-> curComm.seqnum,
                              skipped |-> TRUE, dispatched |-> FALSE]
                /\ backend' = Begin.be
                /\ UNCHANGED <<rankState, cache, batch, loader, io, rebal, pace, comms_trace, args, max_msg_cnt, allowList, groupRanks,
                               stats, collectiveArgs, pc, replayIter, err,
                               dispatchLog, waitLog>>
           ELSE /\ cnt' = cnt + 1
                /\ collectiveArgs' = w.st.ca
                /\ backend' = w.st.be
                /\ comms_trace' = [comms_trace EXCEPT ![cnt + 1] = w.record]
                /\ rebalanceLog' = IF w.rebalanced THEN Append(rebalanceLog, w.entry)
                                   ELSE rebalanceLog
                /\ dispatchLog' =
                       IF commName \in collectiveFunc
                       THEN Append(dispatchLog,
                                   [pass |-> "warmup", iter |-> 0,
                                    seqnum |-> curComm.seqnum, comms |-> commName,
                                    req |-> curComm.req,
                                    h |-> w.h, ret |-> w.ret,
                                    inMsgSize |-> w.comm.inMsgSize,
                                    inSplit |-> w.comm.inSplit,
                                    outMsgSize |-> w.comm.outMsgSize,
                                    outSplit |-> w.comm.outSplit,
                                    before |-> curComm])
                       ELSE dispatchLog
                /\ lastOp' = [pass |-> "warmup", iter |-> 0, seqnum |-> curComm.seqnum,
                              skipped |-> FALSE,
                              dispatched |-> commName \in collectiveFunc]
                /\ UNCHANGED <<rankState, cache, batch, loader, io, pace, args, max_msg_cnt, allowList, groupRanks,
                               stats, pc, replayIter, err, waitLog>>

\* no op was replayed since the last batch closed
NoBatch == [seqnum |-> None, at |-> None, waits |-> 0, taken |-> 0]

\* benchTime between warm-up and the first replay: resetComms, sync_barrier
StartReplays ==
    /\ pc = "warmUpBench" /\ (~do_warm_up \/ cnt >= PassLen)
    /\ LET st == sync_barrier(resetComms(Begin))
       IN  /\ collectiveArgs' = st.ca
           /\ backend' = st.be
    /\ pc' = "replayTrace"
    /\ cnt' = 0
    /\ replayIter' = 0
    /\ elapsed' = 0
    /\ coll_in_batch_num' = 0 /\ batch_begin' = None /\ batchFirst' = NoBatch
    /\ UNCHANGED <<rankState, cache, colls_per_batch, batchLat, batchLog, loader, io, rebal, paceLog, comms_trace, args, max_msg_cnt, allowList, groupRanks, stats,
                   err, hist>>

RECURSIVE appendToBlocks(_, _, _)
appendToBlocks(blocks, curBlocks, recordComm) ==
    IF Len(curBlocks) = 0 THEN blocks
    ELSE LET b == Head(curBlocks)
         IN  appendToBlocks(DictSet(blocks, b, Append(blocks[b], recordComm)),
                            Tail(curBlocks), recordComm)

\* an output record that reports the latency with the barrier included
recordCommOfSynced(curComm, curBlocks, latency, global_latency) ==
    [comm |-> curComm,
     marker_stack |-> IF Len(curBlocks) > 0 THEN curBlocks ELSE <<"Unamed/Unknown">>,
     quant_us |-> 0, dequant_us |-> 0,
     latency_us |-> global_latency, global_latency_us |-> global_latency]

\* the record replayTrace appends to the output trace
recordCommOf(curComm, curBlocks, latency, global_latency) ==
    [comm |-> curComm,
     marker_stack |-> IF Len(curBlocks) > 0 THEN curBlocks ELSE <<"Unamed/Unknown">>,
     quant_us |-> 0, dequant_us |-> 0,
     latency_us |-> latency, global_latency_us |-> global_latency]

\* # sleep for 20ms to wait for next collective: 0.02 s in ticks of 10 ms
LOOP_TIMER_S == 2

\* no pacing
waitForTimestampNoWait(curComm, arrived) == {arrived}

\* the loop of waitForTimestamp entered `arrived` ticks after startTime: the
\* readings of the clock at which it can end.  time.sleep(LOOP_TIMER_S)
\* returns after LOOP_TIMER_S or up to MaxJitter ticks later; a turn of the
\* loop that does not sleep ends at the next tick or up to MaxJitter later.
RECURSIVE pacingLoop(_, _)
pacingLoop(now, startTimeNs) ==
    IF now > startTimeNs THEN {now}
    ELSE IF startTimeNs - now >= LOOP_TIMER_S
    THEN UNION {pacingLoop(now + d, startTimeNs) :
                    d \in LOOP_TIMER_S..(LOOP_TIMER_S + MaxJitter)}
    ELSE UNION {pacingLoop(now + d, startTimeNs) : d \in 1..(1 + MaxJitter)}

\* waitForTimestamp(curComm, startTime): the elapsed time at which it returns
waitForTimestamp(curComm, arrived) ==
    IF curComm.startTimeNs # None THEN pacingLoop(arrived, curComm.startTimeNs)
    ELSE {arrived}

\* milliseconds in a tick of the clock: batch_latency is scaled to
\* milliseconds
MsPerTick == 10

\* replayTrace, the batch accounting of one replayed op: batch_begin is taken
\* (at `arrived`, after prepComms) while coll_in_batch_num is 0; after
\* runComms (at `now`) a wait counts, and the wait that brings the count to
\* colls_per_batch closes the batch
replayBatch(n, num, begin, collName, arrived, now) ==
    LET taken == n > 0 /\ num = 0
        begun == IF taken THEN arrived ELSE begin
        counted == collName = "wait" /\ n > 0
        num1 == IF counted THEN num + 1 ELSE num
        closes == counted /\ num1 = n
    IN  [coll_in_batch_num |-> IF closes THEN 0 ELSE num1,
         batch_begin |-> begun,
         taken |-> taken,
         closes |-> closes,
         batch_latency |-> IF closes THEN (now - begun) * MsPerTick ELSE None]

\* the open batch as the history sees it once one more op is replayed: its
\* first op and when that op was prepared, the waits replayed, the times
\* batch_begin was taken
batchSeen(first, b, seqnum, collName, arrived) ==
    LET f == IF first = NoBatch
             THEN [seqnum |-> seqnum, at |-> arrived, waits |-> 0, taken |-> 0]
             ELSE first
    IN  [f EXCEPT !.waits = IF collName = "wait" THEN @ + 1 ELSE @,
                  !.taken = IF b.taken THEN @ + 1 ELSE @]

\* one iteration of the loop of replayTrace
ReplayOp ==
    /\ pc = "replayTrace" /\ replayIter < num_replays /\ cnt < PassLen
    /\ \E latency \in 0..timerMax, barrierTime \in 0..timerMax,
          prepTime \in {0, prepMax} :
       \E startedAt \in IF use_timestamp
                        THEN waitForTimestamp(nextComm(comms_trace, cnt),
                                              elapsed + prepTime)
                        ELSE {elapsed + prepTime} :
       LET curComm == nextComm(comms_trace, cnt)
           collName == paramToCommName(curComm.comms)
           gi == getCommGroupInfo(collectiveArgs, curComm, groupRanks, shrink, global_rank)
           curBlocks == Markers(curComm)
           prep == prepComms(collectiveArgs, curComm, shrink)
           st0 == [Begin EXCEPT !.ca = [prep.ca EXCEPT !.ipTensor = prep.tensors.ip,
                                                      !.opTensor = prep.tensors.op]]
           rc == runComms(st0, collName, prep.comm, is_blocking, latency, barrierTime)
           called == dispatchColl(rc.entry, collName, prep.comm)
           recordComm == recordCommOf(prep.comm, curBlocks, rc.latency, rc.global_latency)
       IN  IF gi.err # "" THEN Fail(gi.err)
           ELSE IF collName \notin allowList \/ gi.rank = -1
           THEN /\ cnt' = cnt + 1
                /\ lastOp' = [pass |-> "replay", iter |-> replayIter,
                              seqnum |-> curComm.seqnum,
                              skipped |-> TRUE, dispatched |-> FALSE]
                /\ backend' = Begin.be
                /\ UNCHANGED <<rankState, cache, batch, loader, io, rebal, pace, comms_trace, args, max_msg_cnt, allowList, groupRanks,
                               stats, collectiveArgs, pc, replayIter, err,
                               dispatchLog, waitLog>>
           ELSE IF prep.err # "" THEN Fail(prep.err)
           ELSE IF rc.st.err # "" THEN Fail(rc.st.err)
           ELSE /\ cnt' = cnt + 1
                /\ comms_trace' = [comms_trace EXCEPT ![cnt + 1] = prep.comm]
                /\ collectiveArgs' = rc.st.ca
                /\ backend' = rc.st.be
                /\ collLat' = DictSet(collLat, collName, Append(collLat[collName], rc.latency))
                /\ totalCommsLatency' = totalCommsLatency + rc.latency
                /\ comms_blocks' = appendToBlocks(comms_blocks, curBlocks, recordComm)
                /\ traceWithPerf' = Append(traceWithPerf, recordComm)
                /\ dispatchLog' =
                       IF collName \in collectiveFunc
                       THEN Append(dispatchLog,
                                   [pass |-> "replay", iter |-> replayIter,
                                    seqnum |-> curComm.seqnum, comms |-> collName,
                                    req |-> curComm.req,
                                    h |-> IssuedBy(rc.entry, called), ret |-> called.ret,
                                    inMsgSize |-> prep.comm.inMsgSize,
                                    inSplit |-> prep.comm.inSplit,
                                    outMsgSize |-> prep.comm.outMsgSize,
                                    outSplit |-> prep.comm.outSplit,
                                    before |-> curComm])
                       ELSE dispatchLog
                /\ waitLog' =
                       IF collName = "wait"
                       THEN Append(waitLog,
                                   [iter |-> replayIter, seqnum |-> curComm.seqnum,
                                    req |-> curComm.req, waited |-> rc.st.waited,
                                    waitObj |-> rc.entry.ca.waitObj,
                                    outstanding |-> Outstanding(rc.entry.be),
                                    waitObjIds |-> rc.entry.ca.waitObjIds])
                       ELSE waitLog
                /\ lastOp' = [pass |-> "replay", iter |-> replayIter,
                              seqnum |-> curComm.seqnum, skipped |-> FALSE,
                              dispatched |-> collName \in collectiveFunc]
                /\ elapsed' = startedAt + rc.global_latency
                /\ paceLog' = Append(paceLog,
                                     [iter |-> replayIter, seqnum |-> curComm.seqnum,
                                      startTimeNs |-> curComm.startTimeNs,
                                      arrived |-> elapsed + prepTime,
                                      at |-> startedAt])
                /\ \E b \in {replayBatch(colls_per_batch, coll_in_batch_num,
                                         batch_begin, collName, elapsed + prepTime,
                                         startedAt + rc.global_latency)} :
                   \E seen \in {batchSeen(batchFirst, b, curComm.seqnum, collName,
                                          elapsed + prepTime)} :
                       /\ coll_in_batch_num' = b.coll_in_batch_num
                       /\ batch_begin' = b.batch_begin
                       /\ batchLat' = IF b.closes THEN Append(batchLat, b.batch_latency)
                                      ELSE batchLat
                       /\ batchFirst' = IF colls_per_batch > 0 /\ ~b.closes
                                        THEN seen ELSE NoBatch
                       /\ batchLog' =
                              IF b.closes
                              THEN Append(batchLog,
                                          [iter |-> replayIter, seqnum |-> curComm.seqnum,
                                           first |-> seen.seqnum, firstAt |-> seen.at,
                                           waits |-> seen.waits, taken |-> seen.taken,
                                           begin |-> b.batch_begin,
                                           end |-> startedAt + rc.global_latency,
                                           batch_latency |-> b.batch_latency])
                              ELSE batchLog
                /\ UNCHANGED <<rankState, cache, colls_per_batch, loader, io, rebal, args, max_msg_cnt, allowList, groupRanks,
                               collInMsgSizes, collOutMsgSizes, collInUniMsgSizes,
                               collOutUniMsgSizes, pc, replayIter, err>>

\* benchTime after each replayTrace: resetComms, sync_barrier
EndReplay ==
    /\ pc = "replayTrace" /\ replayIter < num_replays /\ cnt >= PassLen
    /\ LET st == sync_barrier(resetComms(Begin))
       IN  /\ collectiveArgs' = st.ca
           /\ backend' = st.be
    /\ replayIter' = replayIter + 1
    /\ cnt' = 0
    /\ elapsed' = 0
    /\ coll_in_batch_num' = 0 /\ batch_begin' = None /\ batchFirst' = NoBatch
    /\ UNCHANGED <<rankState, cache, colls_per_batch, batchLat, batchLog, loader, io, rebal, paceLog, comms_trace, args, max_msg_cnt, allowList, groupRanks, stats,
                   pc, err, hist>>

\* the end of benchTime and of runBench: the report of rank 0, the output
\* trace file (an output path is given), the final barrier and completion
Finish ==
    /\ pc = "replayTrace" /\ replayIter = num_replays
    /\ LET st == complete_accel_ops(barrier(Begin), TRUE)
       IN  /\ collectiveArgs' = st.ca
           /\ backend' = st.be
    /\ reported' = reports(global_rank)
    /\ outFile' = Append(outFile, traceWithPerf)
    /\ pc' = "done"
    /\ UNCHANGED <<rankState, cache, batch, loader, rebal, pace, comms_trace, args, max_msg_cnt, allowList, groupRanks, stats,
                   cnt, replayIter, err, hist>>

Next == Setup \/ WarmUpOp \/ StartReplays \/ ReplayOp \/ EndReplay \/ Finish

\* ------------------------------------------------------------------------
\* replaySingle and the tensor cache of prepComms
\* ------------------------------------------------------------------------
\* the truth value of curComm.eg_id: None and 0 are false
hasEgId(eg_id) == eg_id # None /\ eg_id # 0

\* the end of prepComms: the buffer pair it returns for a record whose
\* buffers have the sizes `sizes`, the cache and the count of allocations
\* afterwards.  prepComm called with False for its third argument allocates
\* nothing.
cachedTensors(curComm, regenerateTensors, egCache, allocCount, sizes) ==
    LET fresh == [ip |-> sizes.ip, op |-> sizes.op, id |-> allocCount + 1]
    IN  IF ~hasEgId(curComm.eg_id) \/ regenerateTensors
        THEN [pair |-> fresh, cache |-> egCache, allocated |-> allocCount + 1]
        ELSE IF curComm.eg_id \in DOMAIN egCache
        THEN [pair |-> egCache[curComm.eg_id], cache |-> egCache,
              allocated |-> allocCount]
        ELSE [pair |-> fresh, cache |-> DictSet(egCache, curComm.eg_id, fresh),
              allocated |-> allocCount + 1]

\* the position of the first record below the limit that carries eg_id, 0 if
\* there is none
RECURSIVE firstWithEgId(_, _, _, _)
firstWithEgId(trace, limit, eg_id, i) ==
    IF i > limit THEN 0
    ELSE IF trace[i].eg_id = eg_id THEN i
    ELSE firstWithEgId(trace, limit, eg_id, i + 1)

\* replaySingle(commsParams, eg_id, regenerateTensors) once the record at
\* position i is found: [found, st, comm, pair, cache, allocated, err]
replaySingle(begin, curComm, regenerateTensors, egCache, allocCount, allow, shrinkOn, blocking) ==
    LET collName == paramToCommName(curComm.comms)
        prep == prepComms(begin.ca, curComm, shrinkOn)
        ct == cachedTensors(prep.comm, regenerateTensors, egCache, allocCount,
                            prep.tensors)
        st0 == [begin EXCEPT !.ca = [prep.ca EXCEPT !.ipTensor = ct.pair.ip,
                                                    !.opTensor = ct.pair.op]]
        rc == runComms(st0, collName, prep.comm, blocking, 0, 0)
        none == [found |-> FALSE, st |-> begin, comm |-> curComm,
                 pair |-> [ip |-> None, op |-> None, id |-> None],
                 cache |-> egCache, allocated |-> allocCount, err |-> ""]
    IN  IF collName \notin allow THEN none
        ELSE IF prep.err # "" THEN [none EXCEPT !.err = prep.err]
        ELSE IF collName \in {"wait", "barrier"}
        THEN [none EXCEPT !.found = TRUE, !.st = rc.st, !.err = rc.st.err]
        ELSE [found |-> TRUE, st |-> rc.st, comm |-> prep.comm, pair |-> ct.pair,
              cache |-> ct.cache, allocated |-> ct.allocated, err |-> rc.st.err]

\* one call of replaySingle by the replayer of an execution graph, after
\* the backend is set up
ReplaySingle ==
    /\ pc = "warmUpBench" /\ Len(singleLog) < MaxSingle
    /\ \E eg_id \in 0..MaxEgId, regenerateTensors \in BOOLEAN :
       \E i \in {firstWithEgId(comms_trace, PassLen, eg_id, 1)} :
          IF i = 0
          THEN /\ singleLog' = Append(singleLog,
                                      [eg_id |-> eg_id, regenerate |-> regenerateTensors,
                                       prepared |-> FALSE, pair |-> None,
                                       before |-> eg_to_tensors,
                                       after |-> eg_to_tensors])
               /\ UNCHANGED <<rankState, eg_to_tensors, allocated, batch, loader, io, rebal, pace,
                              comms_trace, args, max_msg_cnt, allowList, groupRanks,
                              stats, collectiveArgs, backend, pc, cnt, replayIter,
                              err, hist>>
          ELSE \E r \in {replaySingle(Begin, comms_trace[i], regenerateTensors,
                                      eg_to_tensors, allocated, allowList, shrink,
                                      is_blocking)} :
               IF r.err # "" THEN Fail(r.err)
               ELSE /\ collectiveArgs' = r.st.ca
                    /\ backend' = r.st.be
                    /\ comms_trace' = [comms_trace EXCEPT ![i] = r.comm]
                    /\ eg_to_tensors' = r.cache
                    /\ allocated' = r.allocated
                    /\ singleLog' = Append(singleLog,
                                           [eg_id |-> eg_id,
                                            regenerate |-> regenerateTensors,
                                            prepared |-> r.pair.id # None,
                                            pair |-> r.pair.id,
                                            before |-> eg_to_tensors,
                                            after |-> r.cache])
                    /\ UNCHANGED <<rankState, batch, loader, io, rebal, pace, args, max_msg_cnt,
                                   allowList, groupRanks, stats, pc, cnt, replayIter,
                                   err, hist>>

NextSingle == Setup \/ ReplaySingle

\* ------------------------------------------------------------------------
\* The ranks of the job: each runs benchTime on the same trace
\* ------------------------------------------------------------------------
\* the backend calls that take a process group: barriers and collectives
GroupCalls(calls) ==
    SelectSeq(calls, LAMBDA c : c.call \notin {"complete_accel_ops", "device_sync",
                                               "handle.wait"})

\* the barriers and collectives among the calls, as the ranks of their
\* group see them
Blocking(calls) ==
    [i \in DOMAIN GroupCalls(calls) |->
        [call |-> GroupCalls(calls)[i].call, group |-> GroupCalls(calls)[i].group]]

Ranks == 0..(WorldSize - 1)

\* the ranks of a process group
Members(group) == {group[i] : i \in DOMAIN group}

\* benchTime without warm-up, up to the first replay
rankStarts(rank) ==
    LET st == sync_barrier(resetComms([Begin EXCEPT !.ca = collectiveArgs]))
    IN  [at |-> "replayTrace", cnt |-> 0, iter |-> 0, ca |-> st.ca,
         blocked |-> Blocking(st.be.calls)]

\* one iteration of the loop of replayTrace on a rank
rankReplaysOp(rank) ==
    LET me == rankState[rank]
        curComm == nextComm(comms_trace, me.cnt)
        collName == paramToCommName(curComm.comms)
        gi == getCommGroupInfo(me.ca, curComm, groupRanks, shrink, rank)
        prep == prepComms(me.ca, curComm, shrink)
        st0 == [[Begin EXCEPT !.ca = rankState[rank].ca] EXCEPT
                    !.ca = [prep.ca EXCEPT !.ipTensor = prep.tensors.ip,
                                           !.opTensor = prep.tensors.op]]
        rc == runComms(st0, collName, prep.comm, is_blocking, 0, 0)
    IN  IF gi.err # "" THEN [me EXCEPT !.at = "error"]
        ELSE IF collName \notin allowList \/ gi.rank = -1
        THEN [me EXCEPT !.cnt = @ + 1]
        ELSE IF prep.err # "" \/ rc.st.err # "" THEN [me EXCEPT !.at = "error"]
        ELSE [me EXCEPT !.cnt = @ + 1, !.ca = rc.st.ca,
                        !.blocked = Blocking(rc.st.be.calls)]

\* the end of one replay on a rank: resetComms and sync_barrier
rankEndsReplay(rank) ==
    LET st == sync_barrier(resetComms([Begin EXCEPT !.ca = rankState[rank].ca]))
    IN  [rankState[rank] EXCEPT !.iter = @ + 1, !.cnt = 0, !.ca = st.ca,
                                !.blocked = Blocking(st.be.calls)]

\* the barrier of runBench after benchTime
rankFinishes(rank) ==
    LET st == complete_accel_ops(barrier([Begin EXCEPT !.ca = rankState[rank].ca]), TRUE)
    IN  [rankState[rank] EXCEPT !.at = "done", !.ca = st.ca,
                                !.blocked = Blocking(st.be.calls)]

\* a rank that is blocked in no call runs up to its next blocking calls
RankRuns ==
    /\ pc = "warmUpBench" /\ is_blocking /\ ~do_warm_up
    /\ \E rank \in Ranks :
          /\ rankState[rank].blocked = <<>>
          /\ rankState[rank].at \in {"runBench", "replayTrace"}
          /\ \E next \in {IF rankState[rank].at = "runBench" THEN rankStarts(rank)
                          ELSE IF rankState[rank].iter >= num_replays
                          THEN rankFinishes(rank)
                          ELSE IF rankState[rank].cnt >= PassLen
                          THEN rankEndsReplay(rank)
                          ELSE rankReplaysOp(rank)} :
                rankState' = [rankState EXCEPT ![rank] = next]
    /\ UNCHANGED <<cache, batch, loader, io, rebal, pace, comms_trace, args, max_msg_cnt,
                   allowList, groupRanks, stats, collectiveArgs, backend, pc, cnt,
                   replayIter, err, hist>>

\* the ranks of the group are all blocked in the call c
AllBlockedIn(c) ==
    \A m \in Members(c.group) :
        rankState[m].blocked # <<>> /\ Head(rankState[m].blocked) = c

\* a blocking barrier or collective returns on every rank of its group
\* once all of them have called it
Rendezvous ==
    /\ \E rank \in Ranks :
          /\ rankState[rank].blocked # <<>>
          /\ \E c \in {Head(rankState[rank].blocked)} :
                /\ AllBlockedIn(c)
                /\ \A m \in Members(c.group) : m >= rank
                /\ rankState' = [m \in Ranks |->
                                    IF m \in Members(c.group)
                                    THEN [rankState[m] EXCEPT !.blocked = Tail(@)]
                                    ELSE rankState[m]]
    /\ UNCHANGED <<cache, batch, loader, io, rebal, pace, comms_trace, args, max_msg_cnt,
                   allowList, groupRanks, stats, collectiveArgs, backend, pc, cnt,
                   replayIter, err, hist>>

NextRanks == Setup \/ RankRuns \/ Rendezvous

\* ------------------------------------------------------------------------
\* readTrace / extractCommsInfo
\* ------------------------------------------------------------------------
\* the spelling of the kind names that occur in traces
Spell(name) ==
    CASE name = "wait" -> <<"w", "a", "i", "t">>
      [] name = "Wait" -> <<"W", "a", "i", "t">>
      [] name = "barrier" -> <<"b", "a", "r", "r", "i", "e", "r">>
      [] name = "init" -> <<"i", "n", "i", "t">>
      [] name = "all_reduce" -> <<"a", "l", "l", "_", "r", "e", "d", "u", "c", "e">>
      [] name = "ALL_REDUCE" -> <<"A", "L", "L", "_", "R", "E", "D", "U", "C", "E">>
      [] name = "all_to_all" -> <<"a", "l", "l", "_", "t", "o", "_", "a", "l", "l">>
      [] name = "all_to_allv" ->
             <<"a", "l", "l", "_", "t", "o", "_", "a", "l", "l", "v">>
      [] name = "alltoallv" -> <<"a", "l", "l", "t", "o", "a", "l", "l", "v">>
      [] name = "all_gather" -> <<"a", "l", "l", "_", "g", "a", "t", "h", "e", "r">>

KindNames ==
    {"wait", "Wait", "barrier", "init", "all_reduce", "ALL_REDUCE", "all_to_all",
     "all_to_allv", "alltoallv", "all_gather"}

\* the string with the given spelling
Unspell(chars) == CHOOSE name \in KindNames : Spell(name) = chars

\* str.lower()
lowerChar(c) ==
    CASE c = "A" -> "a" [] c = "L" -> "l" [] c = "R" -> "r" [] c = "E" -> "e"
      [] c = "D" -> "d" [] c = "U" -> "u" [] c = "C" -> "c" [] c = "W" -> "w"
      [] OTHER -> c
lower(name) == Unspell([i \in DOMAIN Spell(name) |-> lowerChar(Spell(name)[i])])

\* a in b for two strings: a occurs in b as a substring
InStr(a, b) ==
    \E i \in 1..(Len(Spell(b)) - Len(Spell(a)) + 1) :
        SubSeq(Spell(b), i, i + Len(Spell(a)) - 1) = Spell(a)

\* d[k] if k in d else the default
GetOr(d, k, default) == IF k \in DOMAIN d THEN d[k] ELSE default

\* the body of the loop of extractCommsInfo: [comm, err]; a subscript with a
\* key the dict lacks raises KeyError
extractOne(curComm, count) ==
    LET name == paramToCommName(lower(curComm.comms))
        sized == name \notin {"wait", "barrier", "init"}
        split == InStr(name, "all_to_allv")
        newComm ==
            [commsArgs EXCEPT
                !.comms = name,
                !.seqnum = count,
                !.req = GetOr(curComm, "req", @),
                !.startTimeNs = GetOr(curComm, "startTime_ns", @),
                !.markerStack = GetOr(curComm, "markers", @),
                !.worldSize = GetOr(curComm, "world_size", @),
                !.root = GetOr(curComm, "root", @),
                !.pgId = GetOr(curComm, "pg_id", @),
                !.groupRanks = GetOr(curComm, "global_ranks", @),
                !.inMsgSize = IF sized THEN GetOr(curComm, "in_msg_size", @) ELSE @,
                !.outMsgSize = IF sized THEN GetOr(curComm, "out_msg_size", @) ELSE @,
                !.dtype = IF sized THEN GetOr(curComm, "dtype", @) ELSE @,
                !.inSplit = IF split THEN GetOr(curComm, "in_split", @) ELSE @,
                !.outSplit = IF split THEN GetOr(curComm, "out_split", @) ELSE @]
        missing ==
            (IF sized THEN {"in_msg_size", "out_msg_size", "dtype"} ELSE {})
            \cup (IF split THEN {"in_split", "out_split"} ELSE {})
    IN  [comm |-> newComm,
         err |-> IF missing \subseteq DOMAIN curComm THEN "" ELSE "KeyError"]

\* one iteration of the loop of extractCommsInfo
ExtractOne ==
    /\ pc = "readTrace" /\ cnt < Len(in_trace)
    /\ LET r == extractOne(in_trace[cnt + 1], cnt)
       IN  IF r.err # ""
           THEN /\ pc' = "error"
                /\ err' = r.err
                /\ UNCHANGED <<newCommsTrace, cnt>>
           ELSE /\ newCommsTrace' = Append(newCommsTrace, r.comm)
                /\ cnt' = cnt + 1
                /\ UNCHANGED <<pc, err>>
    /\ UNCHANGED <<rankState, cache, batch, in_trace, io, rebal, pace, comms_trace, args, max_msg_cnt, allowList, groupRanks,
                   stats, collectiveArgs, backend, replayIter, hist>>

\* readTrace stores what extractCommsInfo returns
ReadTraceDone ==
    /\ pc = "readTrace" /\ cnt = Len(in_trace)
    /\ comms_trace' = newCommsTrace
    /\ pc' = "runBench"
    /\ cnt' = 0
    /\ UNCHANGED <<rankState, cache, batch, loader, io, rebal, pace, args, max_msg_cnt, allowList, groupRanks, stats,
                   collectiveArgs, backend, replayIter, err, hist>>

NextNorm == ExtractOne \/ ReadTraceDone

\* ------------------------------------------------------------------------
\* Traces and initial states
\* ------------------------------------------------------------------------
\* every sequence over S of length lo..hi
SeqsOf(S, lo, hi) == UNION {[1..k -> S] : k \in lo..hi}

\* seqnum as the normalizer assigns it: the 0-based position
WithSeq(tr) == [i \in 1..Len(tr) |-> [tr[i] EXCEPT !.seqnum = i - 1]]

\* a collective with sizes, as a trace records it
DataOp(kind, req, pg, ws) ==
    [commsArgs EXCEPT !.comms = kind, !.req = req, !.pgId = pg,
                      !.inMsgSize = 4, !.outMsgSize = 4, !.dtype = "Int",
                      !.worldSize = ws]
\* wait / barrier
CtrlOp(kind, req) == [commsArgs EXCEPT !.comms = kind, !.req = req]
\* the record that declares process group pg
InitOp(pg, ranks) ==
    [commsArgs EXCEPT !.comms = "init", !.pgId = pg, !.groupRanks = ranks,
                      !.worldSize = Len(ranks)]
InBlock(op, b) == [op EXCEPT !.markerStack = <<b>>]

ReqIds == 1..MaxReq

\* posts and waits with and without req ids, a barrier, a point-to-point post
AsyncOps ==
    {DataOp("all_reduce", r, None, WorldSize) : r \in {None} \cup ReqIds}
    \cup {CtrlOp("wait", r) : r \in {None} \cup ReqIds}
    \cup {CtrlOp("barrier", None), DataOp("isend", 1, None, WorldSize)}

\* supported and unsupported kinds, on the default group and on a sub-group
SkipOps ==
    {DataOp("all_reduce", None, None, WorldSize),
     InBlock(DataOp("all_reduce", None, 1, 1), "blk"),
     InBlock(DataOp("exotic_op", None, None, WorldSize), "blk"),
     DataOp("exotic_op", 1, None, WorldSize),
     DataOp("all_gather", None, None, WorldSize),
     CtrlOp("wait", 1)}

\* a collective with its sizes, recorded world size and splits
SizedOp(kind, inSize, outSize, ws, inSplit, outSplit) ==
    [commsArgs EXCEPT !.comms = kind, !.inMsgSize = inSize, !.outMsgSize = outSize,
                      !.dtype = "Int", !.worldSize = ws,
                      !.inSplit = inSplit, !.outSplit = outSplit]

\* ops recorded on a world larger than the live one
ShrinkOps ==
    {SizedOp("all_reduce", 8, 8, 4, NoneSeq, NoneSeq),
     SizedOp("all_reduce", 7, 7, 4, NoneSeq, NoneSeq),
     SizedOp("all_gather", 8, 32, 4, NoneSeq, NoneSeq),
     SizedOp("all_to_allv", 8, 8, 4, <<1, 2, 2, 3>>, <<2, 2, 2, 2>>),
     SizedOp("all_to_allv", 9, 9, None, <<>>, <<>>),
     SizedOp("all_to_allv", 6, 6, None, <<1, 2, 3>>, <<>>),
     SizedOp("all_to_allv", 3, 3, 4, <<3>>, <<3>>),
     CtrlOp("wait", None)}

\* the trace file as json.load returns it: every record carries the fields
\* the trace format asks of its kind
RawOps ==
    {[comms |-> "all_reduce", in_msg_size |-> 4, out_msg_size |-> 4, dtype |-> "Int"],
     [comms |-> "ALL_REDUCE", in_msg_size |-> 4, out_msg_size |-> 4, dtype |-> "Int",
      req |-> 1],
     [comms |-> "all_to_all", in_msg_size |-> 4, out_msg_size |-> 4, dtype |-> "Int"],
     [comms |-> "alltoallv", in_msg_size |-> 4, out_msg_size |-> 4, dtype |-> "Int",
      in_split |-> <<2, 2>>, out_split |-> <<2, 2>>, world_size |-> 2],
     [comms |-> "all_gather", in_msg_size |-> 4, out_msg_size |-> 8, dtype |-> "Int",
      markers |-> <<"blk">>],
     [comms |-> "Wait", req |-> 1],
     [comms |-> "barrier"],
     [comms |-> "init", pg_id |-> 1, global_ranks |-> <<0, 1>>, world_size |-> 2]}

\* the state after initBench, whatever the trace and the stage
InitWithBatch(traces, dry, shr, maxCnts, blocking, warm, allow, replays, ranks, ticks, policies, batches) ==
    /\ colls_per_batch \in batches
    /\ eg_to_tensors = EmptyDict
    /\ allocated = 0
    /\ singleLog = <<>>
    /\ rankState = [r \in 0..(WorldSize - 1) |->
                       [at |-> "runBench", cnt |-> 0, iter |-> 0,
                        ca |-> [group |-> <<>>], blocked |-> <<>>]]
    /\ coll_in_batch_num = 0
    /\ batch_begin = None
    /\ batchLat = <<>>
    /\ batchFirst = NoBatch
    /\ batchLog = <<>>
    /\ newCommsTrace = <<>>
    /\ comms_trace \in traces
    /\ is_dry_run \in dry
    /\ shrink \in shr
    /\ max_msg_cnt \in maxCnts
    /\ is_blocking \in blocking
    /\ do_warm_up \in warm
    /\ allowList \in allow
    /\ num_replays \in replays
    /\ global_rank \in ranks
    /\ timerMax \in ticks
    /\ rebalance_policy \in policies
    /\ rebalanceLog = <<>>
    /\ elapsed = 0
    /\ paceLog = <<>>
    /\ groupRanks = <<>>
    /\ collLat = EmptyDict
    /\ collInMsgSizes = EmptyDict
    /\ collOutMsgSizes = EmptyDict
    /\ collInUniMsgSizes = EmptyDict
    /\ collOutUniMsgSizes = EmptyDict
    /\ comms_blocks = EmptyDict
    /\ traceWithPerf = <<>>
    /\ totalCommsLatency = 0
    /\ collectiveArgs = [group |-> <<>>, groups |-> EmptyDict, world_size |-> None,
                         asyncOp |-> FALSE, waitObj |-> <<>>,
                         waitObjIds |-> EmptyDict, collectiveId |-> None,
                         ipTensor |-> None, opTensor |-> None]
    /\ backend = [nextHandle |-> 1, issued |-> <<>>, completed |-> {}, calls |-> <<>>,
                  initialized |-> FALSE]
    /\ reported = FALSE
    /\ outFile = <<>>
    /\ cnt = 0
    /\ replayIter = 0
    /\ err = ""
    /\ dispatchLog = <<>>
    /\ waitLog = <<>>
    /\ lastOp = [pass |-> "none", iter |-> 0, seqnum |-> None,
                 skipped |-> FALSE, dispatched |-> FALSE]

\* a run without --colls-per-batch
InitWithPolicy(traces, dry, shr, maxCnts, blocking, warm, allow, replays, ranks, ticks, policies) ==
    InitWithBatch(traces, dry, shr, maxCnts, blocking, warm, allow, replays, ranks,
                  ticks, policies, {-1})

\* a run without --use-timestamp whose prepComms takes no time
Unpaced == use_timestamp = FALSE /\ prepMax = 0

\* a run without --rebalance-policy
InitWith(traces, dry, shr, maxCnts, blocking, warm, allow, replays, ranks, ticks) ==
    /\ InitWithPolicy(traces, dry, shr, maxCnts, blocking, warm, allow, replays, ranks,
                      ticks, {""})
    /\ Unpaced

\* the trace has been read and converted
Loaded == in_trace = <<>> /\ pc = "runBench"

AsyncTraces == {WithSeq(tr) : tr \in SeqsOf(AsyncOps, 1, MaxTraceLen)}
SkipTraces ==
    {WithSeq(<<InitOp(1, <<0>>)>> \o tr) : tr \in SeqsOf(SkipOps, 1, MaxTraceLen - 1)}

\* async posts and waits, replayed once, blocking or not
InitAsync ==
    /\ Loaded
    /\ InitWith(AsyncTraces, {FALSE}, {FALSE}, {0}, BOOLEAN, {FALSE}, {{"all"}},
                {1}, {0}, {0})
\* skipping: allow lists, group membership, unsupported kinds
InitSkip ==
    /\ Loaded
    /\ InitWith(SkipTraces, {FALSE}, {FALSE}, {0}, BOOLEAN, BOOLEAN,
                {{"all"}, {"all_reduce", "exotic_op"}, {"wait", "all_gather"}},
                {1}, 0..(WorldSize - 1), {0})
\* a post, a post with a req id and its wait
TimedOps ==
    {DataOp("all_reduce", None, None, WorldSize),
     DataOp("all_reduce", 1, None, WorldSize), CtrlOp("wait", 1)}
TimedTraces == {WithSeq(tr) : tr \in SeqsOf(TimedOps, 1, MaxTraceLen - 1)}

\* warm-up followed by several replays
InitReplays ==
    /\ Loaded
    /\ InitWith(TimedTraces, {FALSE}, {FALSE}, {0}, BOOLEAN,
                BOOLEAN, {{"all"}}, 1..MaxReplays, {0}, {0})

Init == InitAsync \/ InitSkip \/ InitReplays

Spec == Init /\ [][Next]_vars

\* one replay with timers that read 0..MaxDur ticks
InitTimed ==
    /\ Loaded
    /\ InitWith(TimedTraces, {FALSE}, {FALSE}, {0}, BOOLEAN,
                BOOLEAN, {{"all"}}, {1}, {0}, {MaxDur})

SpecTimed == InitTimed /\ [][Next]_vars

ShrinkTraces == {WithSeq(tr) : tr \in SeqsOf(ShrinkOps, 1, MaxTraceLen - 1)}

\* --auto-shrink on a world of WorldSize ranks
InitShrink ==
    /\ Loaded
    /\ InitWith(ShrinkTraces, {FALSE}, {TRUE}, {0}, BOOLEAN,
                BOOLEAN, {{"all"}}, 1..MaxReplays, {0}, {0})

SpecShrink == InitShrink /\ [][Next]_vars

\* warm-up without a rebalance policy, with and without --auto-shrink
InitWarm ==
    /\ Loaded
    /\ InitWith(ShrinkTraces, {FALSE}, BOOLEAN, {0}, BOOLEAN,
                {TRUE}, {{"all"}}, {1}, {0}, {0})

SpecWarm == InitWarm /\ [][Next]_vars

\* sized ops inside and outside a block, and a wait
LimitOps ==
    {DataOp("all_reduce", None, None, WorldSize),
     InBlock(SizedOp("all_gather", 2, 4, WorldSize, NoneSeq, NoneSeq), "blk"),
     InBlock(SizedOp("all_reduce", 6, 6, WorldSize, NoneSeq, NoneSeq), "blk"),
     InBlock(CtrlOp("wait", None), "blk")}
LimitTraces == {WithSeq(tr) : tr \in SeqsOf(LimitOps, 1, MaxTraceLen)}

\* --dry-run or not, --max-msg-cnt 0..MaxTraceLen, on every rank
InitLimit ==
    /\ Loaded
    /\ InitWith(LimitTraces, BOOLEAN, {FALSE}, 0..MaxTraceLen, {FALSE},
                BOOLEAN, {{"all"}}, 1..MaxReplays, 0..(WorldSize - 1), {0})

SpecLimit == InitLimit /\ [][Next]_vars

\* all_to_allv records to rebalance, on the world and on the group of rank 0,
\* and a collective of another kind
RebalOps ==
    {SizedOp("all_to_allv", 2, 2, WorldSize, <<1, 1>>, <<1, 1>>),
     SizedOp("all_to_allv", 3, 3, WorldSize, <<1, 2>>, <<2, 1>>),
     [SizedOp("all_to_allv", 5, 5, 1, <<5>>, <<5>>) EXCEPT !.pgId = 1],
     SizedOp("all_reduce", 4, 4, WorldSize, NoneSeq, NoneSeq)}
RebalTraces ==
    {WithSeq(<<InitOp(1, <<0>>)>> \o tr) : tr \in SeqsOf(RebalOps, 1, MaxTraceLen - 1)}

\* --rebalance-policy absent, "equal" or unknown; warm-up on or off
InitRebal ==
    /\ Loaded
    /\ InitWithPolicy(RebalTraces, {FALSE}, BOOLEAN, {0}, {FALSE}, BOOLEAN,
                      {{"all"}, {"all_reduce"}}, {MaxReplays}, 0..(WorldSize - 1),
                      {0}, {"", "equal", "other"})
    /\ Unpaced

SpecRebal == InitRebal /\ [][Next]_vars

\* a collective recorded startTimeNs ticks after the start of the capture
StampedOp(startTimeNs) ==
    [DataOp("all_reduce", None, None, WorldSize) EXCEPT !.startTimeNs = startTimeNs]
PaceStamps == {None, 0, 6}
PaceTraces ==
    {WithSeq(tr) : tr \in SeqsOf({StampedOp(t) : t \in PaceStamps}, 1, MaxTraceLen)}

\* --use-timestamp on or off; prepComms takes no time or MaxPrep ticks
InitPace ==
    /\ Loaded
    /\ InitWithPolicy(PaceTraces, {FALSE}, {FALSE}, {0}, {FALSE}, BOOLEAN, {{"all"}},
                      {1}, {0}, {0}, {""})
    /\ use_timestamp \in BOOLEAN
    /\ prepMax = MaxPrep

SpecPace == InitPace /\ [][Next]_vars

\* --colls-per-batch 1 to MaxBatch on traces of posts and waits
BatchOps ==
    {DataOp("all_reduce", None, None, WorldSize),
     DataOp("all_reduce", 1, None, WorldSize), CtrlOp("wait", 1)}
BatchTraces == {WithSeq(tr) : tr \in SeqsOf(BatchOps, 1, MaxTraceLen - 1)}
InitBatch ==
    /\ Loaded
    /\ InitWithBatch(BatchTraces, {FALSE}, {FALSE}, {0}, BOOLEAN, BOOLEAN, {{"all"}},
                     1..MaxReplays, {0}, {MaxDur}, {""}, 1..MaxBatch)
    /\ Unpaced

SpecBatch == InitBatch /\ [][Next]_vars

\* a trace recorded on a world one rank larger than the live one: the group
\* of rank 0, the recorded world as a group, and ops on either and on none
RecordedWorldGroup == [i \in 1..(WorldSize + 1) |-> i - 1]
GroupInits ==
    {<<InitOp(1, <<0>>), InitOp(2, RecordedWorldGroup)>>,
     <<InitOp(2, RecordedWorldGroup), InitOp(1, <<0>>)>>,
     <<InitOp(1, <<0>>)>>}
GroupOps ==
    {DataOp("all_reduce", None, None, WorldSize + 1),
     DataOp("all_reduce", None, 1, 1),
     DataOp("all_reduce", None, 2, WorldSize + 1),
     CtrlOp("barrier", None)}
GroupTraces ==
    {WithSeq(inits \o tr) : inits \in GroupInits,
                            tr \in SeqsOf(GroupOps, 1, MaxTraceLen - 1)}

\* with and without --auto-shrink, on every rank
InitGroups ==
    /\ Loaded
    /\ InitWith(GroupTraces, {FALSE}, BOOLEAN, {0}, BOOLEAN, BOOLEAN, {{"all"}},
                {1}, 0..(WorldSize - 1), {0})

SpecGroups == InitGroups /\ [][Next]_vars

\* records of an execution graph: eg_id 0 to MaxEgId
EgTraces ==
    {WithSeq(tr) :
        tr \in SeqsOf({[DataOp("all_reduce", None, None, WorldSize) EXCEPT !.eg_id = e] :
                           e \in 0..MaxEgId}, 1, MaxTraceLen - 1)}
InitSingle ==
    /\ Loaded
    /\ InitWith(EgTraces, {FALSE}, {FALSE}, {0}, BOOLEAN, {FALSE}, {{"all"}},
                {1}, {0}, {0})

SpecSingle == InitSingle /\ [][NextSingle]_vars

\* measured replays of ops that are skipped or not: by the allow list, by
\* group membership, by the limit on the number of ops
OutTraces ==
    {WithSeq(<<InitOp(1, <<0>>)>> \o tr) :
        tr \in SeqsOf({DataOp("all_reduce", None, None, WorldSize),
                       InBlock(DataOp("all_reduce", None, 1, 1), "blk"),
                       DataOp("all_gather", None, None, WorldSize),
                       DataOp("exotic_op", None, None, WorldSize)}, 1, MaxTraceLen - 1)}
InitOut ==
    /\ Loaded
    /\ InitWith(OutTraces, {FALSE}, {FALSE}, {0, MaxTraceLen - 1}, BOOLEAN, BOOLEAN,
                {{"all"}, {"all_reduce", "exotic_op"}}, 1..MaxReplays,
                0..(WorldSize - 1), {MaxDur})

SpecOut == InitOut /\ [][Next]_vars

\* every rank of the job replays one trace in blocking mode: ops on the
\* default group and on a sub-group, wait and barrier records
RanksTraces ==
    {WithSeq(<<InitOp(1, <<0>>)>> \o tr) :
        tr \in SeqsOf({DataOp("all_reduce", None, None, WorldSize),
                       DataOp("all_reduce", None, 1, 1),
                       CtrlOp("barrier", None), CtrlOp("wait", None)}, 1, MaxTraceLen)}
InitRanks ==
    /\ Loaded
    /\ InitWith(RanksTraces, {FALSE}, BOOLEAN, {0}, {TRUE}, {FALSE}, {{"all"}},
                1..MaxReplays, {0}, {0})

\* once the backend is set up, a rank that can go on does go on
SpecRanks == InitRanks /\ [][NextRanks]_vars /\ WF_rankState(RankRuns \/ Rendezvous)

RawTraces == SeqsOf(RawOps, 1, MaxTraceLen)

\* readTrace has decoded the file and is about to call extractCommsInfo
InitNorm ==
    /\ in_trace \in RawTraces
    /\ pc = "readTrace"
    /\ InitWith({<<>>}, {FALSE}, {FALSE}, {0}, {FALSE}, {FALSE}, {{"all"}},
                {1}, {0}, {0})

SpecNorm == InitNorm /\ [][NextNorm]_vars

\* a collective, an init record with its member list and one without
LoadOps ==
    {[comms |-> "all_reduce", in_msg_size |-> 4, out_msg_size |-> 4, dtype |-> "Int"],
     [comms |-> "init", pg_id |-> 1, global_ranks |-> <<0>>, world_size |-> 1],
     [comms |-> "init", pg_id |-> 2]}
LoadTraces == SeqsOf(LoadOps, 1, MaxTraceLen)

\* readTrace is about to call extractCommsInfo; the run follows
InitLoad ==
    /\ in_trace \in LoadTraces
    /\ pc = "readTrace"
    /\ InitWith({<<>>}, BOOLEAN, {FALSE}, {0}, {FALSE}, {TRUE}, {{"all"}},
                {1}, 0..(WorldSize - 1), {0})

NextLoad == NextNorm \/ Next

SpecLoad == InitLoad /\ [][NextLoad]_vars

\* ------------------------------------------------------------------------
\* Properties
\* ------------------------------------------------------------------------
\* the posts of the same measured pass that precede wait entry w and carry
\* its req id, as positions of dispatchLog
PostsBefore(w) ==
    {i \in DOMAIN dispatchLog :
        /\ dispatchLog[i].pass = "replay"
        /\ dispatchLog[i].iter = w.iter
        /\ dispatchLog[i].seqnum < w.seqnum
        /\ dispatchLog[i].comms # "wait"
        /\ dispatchLog[i].req = w.req}

LastPostBefore(w) == CHOOSE i \in PostsBefore(w) : \A j \in PostsBefore(w) : j <= i

\* C1: in non-blocking measured replay, a wait carrying req id r waits on
\* exactly the handle returned by the dispatch of the earlier op that carried
\* req id r, whatever was replayed in between.
C1_WaitResolvesPostedHandle ==
    \A k \in DOMAIN waitLog :
        LET w == waitLog[k]
        IN  (~is_blocking /\ w.req # None /\ PostsBefore(w) # {})
                => w.waited = dispatchLog[LastPostBefore(w)].ret

\* the handles posted before wait entry w in its measured pass that no earlier
\* wait op of that pass has waited on, oldest first (dispatchLog positions)
UnwaitedBefore(w) ==
    {i \in DOMAIN dispatchLog :
        /\ dispatchLog[i].pass = "replay"
        /\ dispatchLog[i].iter = w.iter
        /\ dispatchLog[i].seqnum < w.seqnum
        /\ dispatchLog[i].comms # "wait"
        /\ dispatchLog[i].h # None
        /\ \A k \in DOMAIN waitLog :
               (waitLog[k].iter = w.iter /\ waitLog[k].seqnum < w.seqnum)
                   => waitLog[k].waited # dispatchLog[i].h}

OldestUnwaited(w) ==
    IF UnwaitedBefore(w) = {} THEN None
    ELSE dispatchLog[CHOOSE i \in UnwaitedBefore(w) :
                         \A j \in UnwaitedBefore(w) : i <= j].h

\* C2: in non-blocking measured replay, a wait without req id, or whose req id
\* is not in the registry, waits on the oldest outstanding handle, whatever the
\* registry holds and whatever req id the preceding op carried.  Outstanding
\* is read either as still queued in the backend or as posted and not yet the
\* target of a wait op; the wait must agree with one of the two.
C2_WaitFallsBackToOldest ==
    \A k \in DOMAIN waitLog :
        LET w == waitLog[k]
        IN  (~is_blocking /\ (w.req = None \/ w.req \notin DOMAIN w.waitObjIds))
                => \/ w.waited = (IF Len(w.outstanding) > 0
                                  THEN Head(w.outstanding) ELSE None)
                   \/ w.waited = OldestUnwaited(w)

\* C3: once a wait with req id r has been replayed in the measured pass, the
\* work of every earlier post of that pass with req id r has completed.
C3_WaitObservesCompletion ==
    \A k \in DOMAIN waitLog :
        LET w == waitLog[k]
        IN  w.req # None =>
                \A i \in PostsBefore(w) :
                    dispatchLog[i].h # None => dispatchLog[i].h \in backend.completed

\* a non-blocking wait for a post that is separated from it by another post
C3_Witness ==
    /\ ~is_blocking
    /\ \E k \in DOMAIN waitLog :
           /\ waitLog[k].req # None
           /\ \E i \in PostsBefore(waitLog[k]) :
                  /\ dispatchLog[i].h # None
                  /\ dispatchLog[i].seqnum + 1 < waitLog[k].seqnum

\* the op replayTrace visits next is one the claim counts as replayed
Eligible(curComm) ==
    /\ paramToCommName(curComm.comms) \in allowList
    /\ getCommGroupInfo(collectiveArgs, curComm, groupRanks, shrink, global_rank).rank # -1

C4_Step ==
    (pc = "replayTrace" /\ pc' = "replayTrace" /\ cnt' = cnt + 1) =>
        LET curComm == nextComm(comms_trace, cnt)
        IN  /\ Eligible(curComm) <=> lastOp'.dispatched
            /\ ~Eligible(curComm) =>
                   /\ backend'.calls = <<>>
                   /\ collLat' = collLat
                   /\ comms_blocks' = comms_blocks
                   /\ traceWithPerf' = traceWithPerf

\* C4: in the measured pass an op is dispatched to the backend exactly when
\* its kind is in the allow list and its group holds the local rank; any other
\* op causes no backend call, no latency entry, no block entry and no output
\* record.
C4_SkipPreserving == [][C4_Step]_vars

\* a kind the backend does not support (init records are control records)
IsUnknownKind(k) == k \notin collectiveFunc /\ k # "init"

\* C5: an op of a kind the backend does not support is skipped op-locally
\* under every allow list, blocking or not, with or without req id: it raises
\* no error, gets no latency entry and no output record.
C5_UnsupportedKindSkipped ==
    /\ err # "UnboundLocalError"
    /\ \A k \in DOMAIN collLat : IsUnknownKind(k) => collLat[k] = <<>>
    /\ \A i \in DOMAIN traceWithPerf : ~IsUnknownKind(traceWithPerf[i].comm.comms)

\* the trace is a point-to-point post with a req id followed by its wait
IsP2PThenWait ==
    /\ Len(comms_trace) = 2
    /\ comms_trace[1].comms \in P2PKinds
    /\ comms_trace[1].req # None
    /\ comms_trace[2].comms = "wait"
    /\ comms_trace[2].req = comms_trace[1].req

\* C6: a non-blocking replay of a point-to-point post with req id r followed
\* by a wait with req id r ends without error, with both ops in the output
\* trace and the wait resolving the handle the post returned.
C6_P2PThenWaitReplays ==
    (IsP2PThenWait /\ ~is_blocking) =>
        /\ pc # "error"
        /\ pc = "done" =>
               /\ Len(traceWithPerf) = 2 * num_replays
               /\ \A k \in DOMAIN waitLog :
                      /\ PostsBefore(waitLog[k]) # {}
                      /\ waitLog[k].waited = dispatchLog[LastPostBefore(waitLog[k])].ret

\* C7: within the warm-up pass and within each measured replay, the sequence
\* numbers of the dispatched ops are strictly increasing.
C7_DispatchInTraceOrder ==
    \A i, j \in DOMAIN dispatchLog :
        (i < j /\ dispatchLog[i].pass = dispatchLog[j].pass
               /\ dispatchLog[i].iter = dispatchLog[j].iter)
            => dispatchLog[i].seqnum < dispatchLog[j].seqnum

\* two dispatches in warm-up and two in the second measured replay
C7_Witness ==
    /\ \E i, j \in DOMAIN dispatchLog :
           i < j /\ dispatchLog[i].pass = "warmup" /\ dispatchLog[j].pass = "warmup"
    /\ \E i, j \in DOMAIN dispatchLog :
           /\ i < j
           /\ dispatchLog[i].pass = "replay" /\ dispatchLog[j].pass = "replay"
           /\ dispatchLog[i].iter = 1 /\ dispatchLog[j].iter = 1

\* C8: every record of the output trace has latency_us <= global_latency_us
\* in blocking mode and latency_us = global_latency_us in non-blocking mode.
C8_LatencyAccounting ==
    \A i \in DOMAIN traceWithPerf :
        IF is_blocking
        THEN traceWithPerf[i].latency_us <= traceWithPerf[i].global_latency_us
        ELSE traceWithPerf[i].latency_us = traceWithPerf[i].global_latency_us

\* a blocking record whose post-barrier took time, next to one where it did not
C8_Witness ==
    /\ is_blocking
    /\ \E i, j \in DOMAIN traceWithPerf :
           /\ traceWithPerf[i].latency_us < traceWithPerf[i].global_latency_us
           /\ traceWithPerf[j].latency_us = traceWithPerf[j].global_latency_us
           /\ traceWithPerf[j].latency_us > 0

\* C9: for every well-formed input trace the normalizer succeeds and yields
\* as many records as the input has, with seqnum 0, 1, ..., N-1 in input order.
C9_NormalizerTotal ==
    /\ pc # "error"
    /\ pc = "runBench" =>
           /\ Len(comms_trace) = Len(in_trace)
           /\ \A i \in DOMAIN comms_trace : comms_trace[i].seqnum = i - 1

\* an all_to_allv whose recorded in_split is non-empty once truncated
HasSplits(d) == d.comms = "all_to_allv" /\ d.inSplit # NoneSeq /\ Len(d.inSplit) > 0

\* C10 as amended: with auto-shrink, the input element count allocated for a
\* dispatched op is divisible by the live world size, except for an
\* all_to_allv with a non-empty in_split, whose count is the sum of the
\* in_split truncated to the live world size.
C10_ShrunkInputPerKind ==
    shrink =>
        \A i \in DOMAIN dispatchLog :
            LET d == dispatchLog[i]
            IN  d.inMsgSize # None =>
                    IF HasSplits(d) THEN d.inMsgSize = SumSeq(d.inSplit)
                    ELSE d.inMsgSize % WorldSize = 0

\* a rescaled all_reduce and an all_to_allv with splits have been dispatched
C10_Witness ==
    /\ shrink
    /\ \E i, j \in DOMAIN dispatchLog :
           /\ dispatchLog[i].comms = "all_reduce"
           /\ dispatchLog[i].inMsgSize > 0
           /\ HasSplits(dispatchLog[j])
           /\ dispatchLog[j].inMsgSize % WorldSize # 0

\* C10 as stated: with auto-shrink, the input element count allocated for
\* every dispatched op of every kind is divisible by the live world size.
C10_ShrunkInputDivisible ==
    shrink =>
        \A i \in DOMAIN dispatchLog :
            dispatchLog[i].inMsgSize # None => dispatchLog[i].inMsgSize % WorldSize = 0

\* the split is a list with entries
NonEmpty(split) == split # NoneSeq /\ Len(split) > 0

\* C11 as amended: with auto-shrink, for every dispatched all_to_allv, after
\* preparation a non-empty in_split sums to the new input element count and a
\* non-empty out_split sums to the new output element count; an empty split
\* leaves the count at the rescaled recorded size.
C11_SplitSumsWhenPresent ==
    shrink =>
        \A i \in DOMAIN dispatchLog :
            LET d == dispatchLog[i]
            IN  d.comms = "all_to_allv" =>
                    /\ Len(d.inSplit) <= WorldSize
                    /\ Len(d.outSplit) <= WorldSize
                    /\ NonEmpty(d.inSplit) => SumSeq(d.inSplit) = d.inMsgSize
                    /\ NonEmpty(d.outSplit) => SumSeq(d.outSplit) = d.outMsgSize

\* an all_to_allv whose recorded splits were longer than the live world, and
\* one whose in_split was shorter, have been dispatched
C11_Witness ==
    /\ shrink
    /\ \E i, j \in DOMAIN dispatchLog :
           /\ dispatchLog[i].comms = "all_to_allv"
           /\ dispatchLog[i].before.inSplit # NoneSeq
           /\ Len(dispatchLog[i].before.inSplit) > WorldSize
           /\ Len(dispatchLog[i].inSplit) = WorldSize
           /\ dispatchLog[j].comms = "all_to_allv"
           /\ Len(dispatchLog[j].inSplit) = 1
           /\ dispatchLog[j].inMsgSize > 0

\* C11 as stated: with auto-shrink, for every dispatched all_to_allv, with an
\* empty or a non-empty recorded in_split, after preparation the in_split sums
\* to the new input element count and the out_split to the new output count.
C11_SplitSumsAlways ==
    shrink =>
        \A i \in DOMAIN dispatchLog :
            LET d == dispatchLog[i]
            IN  d.comms = "all_to_allv" =>
                    /\ SumSeq(d.inSplit) = d.inMsgSize
                    /\ SumSeq(d.outSplit) = d.outMsgSize

\* W_rec of a record: world_size, else the length of in_split, else of
\* out_split, else the live world size
RecordedWorld(rec) ==
    IF rec.worldSize # None THEN rec.worldSize
    ELSE IF NonEmpty(rec.inSplit) THEN Len(rec.inSplit)
    ELSE IF NonEmpty(rec.outSplit) THEN Len(rec.outSplit)
    ELSE WorldSize

\* floor(size / W_rec) * W_live
Rescaled(size, rec) == (size \div RecordedWorld(rec)) * WorldSize

\* C12 as amended: with auto-shrink, one preparation of an op yields input
\* count floor(in / W_rec) * W_live and output count floor(out / W_rec) *
\* W_live, except that the output of all_gather is the new input count times
\* W_live and that an all_to_allv with a non-empty truncated in_split
\* (out_split) gets the sum of that split as its input (output) count.
C12_RescaledCounts ==
    shrink =>
        \A i \in DOMAIN dispatchLog :
            LET d == dispatchLog[i]
                a2av == d.comms = "all_to_allv"
            IN  d.inMsgSize # None =>
                    /\ d.inMsgSize =
                           IF a2av /\ NonEmpty(d.inSplit) THEN SumSeq(d.inSplit)
                           ELSE Rescaled(d.before.inMsgSize, d.before)
                    /\ d.outMsgSize =
                           IF d.comms = "all_gather" THEN d.inMsgSize * WorldSize
                           ELSE IF a2av /\ NonEmpty(d.outSplit) THEN SumSeq(d.outSplit)
                           ELSE Rescaled(d.before.outMsgSize, d.before)

\* an all_gather recorded on a larger world has been prepared, and an
\* all_to_allv whose world size comes from its in_split
C12_Witness ==
    /\ shrink
    /\ \E i, k \in DOMAIN dispatchLog :
           /\ dispatchLog[i].comms = "all_gather"
           /\ dispatchLog[i].inMsgSize < dispatchLog[i].before.inMsgSize
           /\ dispatchLog[i].inMsgSize > 0
           /\ dispatchLog[k].comms = "all_to_allv"
           /\ dispatchLog[k].before.worldSize = None
           /\ NonEmpty(dispatchLog[k].before.inSplit)

\* C12 as stated: with auto-shrink, one preparation of an op of any kind
\* yields input count floor(in / W_rec) * W_live and output count
\* floor(out / W_rec) * W_live, except that the output of all_gather is the
\* new input count times W_live.
C12_RescaledCountsEveryKind ==
    shrink =>
        \A i \in DOMAIN dispatchLog :
            LET d == dispatchLog[i]
            IN  d.inMsgSize # None =>
                    /\ d.inMsgSize = Rescaled(d.before.inMsgSize, d.before)
                    /\ d.outMsgSize =
                           IF d.comms = "all_gather" THEN d.inMsgSize * WorldSize
                           ELSE Rescaled(d.before.outMsgSize, d.before)

\* C13: on a dry run, on every rank, the driver constructs no backend and
\* makes no backend call, runs neither warm-up nor replay, writes no output
\* trace file, and only rank 0 reports.
C13_DryRunTouchesNothing ==
    is_dry_run =>
        /\ ~backend.initialized
        /\ backend.issued = <<>> /\ backend.calls = <<>>
        /\ pc \in {"runBench", "done"}
        /\ dispatchLog = <<>> /\ lastOp.pass = "none"
        /\ traceWithPerf = <<>>
        /\ outFile = <<>>
        /\ reported <=> (pc = "done" /\ global_rank = 0)

\* a dry run over a trace of several ops has ended on a rank other than 0
C13_Witness ==
    /\ is_dry_run /\ pc = "done"
    /\ global_rank # 0 /\ ~reported
    /\ Len(comms_trace) > 1
    /\ DOMAIN collInMsgSizes # {}

\* max_ops: the whole trace for --max-msg-cnt 0, else the first N records
Limit == IF max_msg_cnt = 0 THEN Len(comms_trace) ELSE Min(max_msg_cnt, Len(comms_trace))

RECURSIVE TotalLen(_)
TotalLen(d) ==
    IF DOMAIN d = {} THEN 0
    ELSE LET k == CHOOSE x \in DOMAIN d : TRUE
         IN  Len(d[k]) + TotalLen([x \in DOMAIN d \ {k} |-> d[x]])

\* C14: no op at trace index >= max_ops contributes to the statistics pass, is
\* dispatched in warm-up, or is dispatched or recorded in a measured replay;
\* every op below max_ops is (max_ops is the whole trace for max_msg_cnt 0).
C14_OnlyFirstOps ==
    /\ \A i \in DOMAIN dispatchLog : dispatchLog[i].seqnum < Limit
    /\ \A i \in DOMAIN traceWithPerf : traceWithPerf[i].comm.seqnum < Limit
    /\ pc # "runBench" =>
           TotalLen(collInMsgSizes) =
               Cardinality({i \in 1..Limit : comms_trace[i].inMsgSize # None})
    /\ (pc = "replayTrace" /\ do_warm_up /\ allowList = collectiveFunc) =>
           Cardinality({i \in DOMAIN dispatchLog : dispatchLog[i].pass = "warmup"}) = Limit
    /\ (pc = "done" /\ ~is_dry_run /\ allowList = collectiveFunc) =>
           Len(traceWithPerf) = num_replays * Limit

\* a replay with warm-up has ended that was limited to fewer ops than the
\* trace holds
C14_Witness ==
    /\ pc = "done" /\ ~is_dry_run /\ do_warm_up
    /\ Limit >= 1 /\ Limit < Len(comms_trace)
    /\ Len(traceWithPerf) >= 1

\* the records the statistics pass considers, and those of kind k with sizes
Considered == Take(comms_trace, Limit)
SizedOfKind(k) ==
    SelectSeq(Considered,
              LAMBDA r : paramToCommName(r.comms) = k /\ r.inMsgSize # None)
InBlockOf(b) ==
    SelectSeq(Considered,
              LAMBDA r : r.markerStack # NoneMarkers /\ r.markerStack = <<b>>)
BlockEntry(r) ==
    IF r.comms \in {"wait", "barrier"}
    THEN [comms |-> r.comms, in_msg_size |-> None, out_msg_size |-> None]
    ELSE [comms |-> r.comms, in_msg_size |-> r.inMsgSize,
          out_msg_size |-> r.outMsgSize]

\* C19: the statistics of a dry run are a function of the trace and of
\* max_msg_cnt alone: the per-kind size lists, the unique-size sets and the
\* block table are those of the first max_ops records, in trace order, so two
\* dry runs on the same input print the same statistics.
C19_DryRunDeterministic ==
    (is_dry_run /\ pc = "done") =>
        /\ DOMAIN collLat = {paramToCommName(Considered[i].comms) : i \in 1..Limit}
        /\ DOMAIN collInMsgSizes = {k \in DOMAIN collLat : Len(SizedOfKind(k)) > 0}
        /\ \A k \in DOMAIN collInMsgSizes :
               /\ collInMsgSizes[k] =
                      [i \in 1..Len(SizedOfKind(k)) |-> SizedOfKind(k)[i].inMsgSize]
               /\ collOutMsgSizes[k] =
                      [i \in 1..Len(SizedOfKind(k)) |-> SizedOfKind(k)[i].outMsgSize]
               /\ collInUniMsgSizes[k] =
                      {SizedOfKind(k)[i].inMsgSize : i \in 1..Len(SizedOfKind(k))}
               /\ collOutUniMsgSizes[k] =
                      {SizedOfKind(k)[i].outMsgSize : i \in 1..Len(SizedOfKind(k))}
        /\ \A b \in DOMAIN comms_blocks :
               comms_blocks[b] =
                   [i \in 1..Len(InBlockOf(b)) |-> BlockEntry(InBlockOf(b)[i])]

\* a dry run limited to fewer ops than the trace holds has filled a block
\* and two entries of one kind
C19_Witness ==
    /\ is_dry_run /\ pc = "done"
    /\ Limit < Len(comms_trace)
    /\ \E b \in DOMAIN comms_blocks : Len(comms_blocks[b]) > 0
    /\ \E k \in DOMAIN collInMsgSizes : Len(collInMsgSizes[k]) > 1

\* the calls of rebalanceSplit that ran the "equal" policy
EqualRebalances == {i \in DOMAIN rebalanceLog : rebalanceLog[i].policy = "equal"}

\* C15: after the "equal" policy on an all_to_allv record with effective world
\* size W, in_msg_elems = out_msg_elems = newInSize / W, in_split and
\* out_split have exactly W entries each, all equal, and in_split sums to
\* in_msg_elems.
C15_EqualRebalanceShape ==
    \A i \in EqualRebalances :
        LET e == rebalanceLog[i]
            W == e.world_size
        IN  /\ e.after.inMsgSize * W = e.newInSize
            /\ e.after.outMsgSize = e.after.inMsgSize
            /\ Len(e.after.inSplit) = W /\ Len(e.after.outSplit) = W
            /\ \A j, k \in 1..W : /\ e.after.inSplit[j] = e.after.inSplit[k]
                                  /\ e.after.outSplit[j] = e.after.inSplit[k]
            /\ SumSeq(e.after.inSplit) = e.after.inMsgSize
            /\ comms_trace[e.index].comms = "all_to_allv"

\* a record with unequal splits was rebalanced on a world of several ranks
\* to a non-zero size
C15_Witness ==
    \E i \in EqualRebalances :
        /\ rebalanceLog[i].world_size >= 2
        /\ rebalanceLog[i].newInSize > 0
        /\ rebalanceLog[i].before.inSplit = <<1, 2>>

Dist(a, b) == IF a >= b THEN a - b ELSE b - a

\* C16: in the "equal" policy newInSize is the agreed value rounded to the
\* nearest multiple of W*W, a tie going to the even multiple.
C16_NearestMultiple ==
    \A i \in EqualRebalances :
        LET e == rebalanceLog[i]
            WW == e.world_size * e.world_size
        IN  /\ e.newInSize % WW = 0
            /\ 2 * Dist(e.newInSize, e.agreed) <= WW
            /\ 2 * Dist(e.newInSize, e.agreed) = WW => (e.newInSize \div WW) % 2 = 0

\* the agreed value was rounded up
C16_Witness ==
    \E i \in EqualRebalances : rebalanceLog[i].newInSize > rebalanceLog[i].agreed

\* C16 as stated: newInSize = (W*W) * floor(agreed / (W*W)), never more than
\* the agreed value.
C16_RoundedDown ==
    \A i \in EqualRebalances :
        LET e == rebalanceLog[i]
            WW == e.world_size * e.world_size
        IN  /\ e.newInSize = WW * (e.agreed \div WW)
            /\ e.newInSize <= e.agreed

\* C17: the ranks of a group that rebalance the all_to_allv op at the same
\* trace position with the "equal" policy all end with the same newInSize,
\* in_msg_elems and splits, whatever in_msg_elems each of them recorded.
C17_RanksAgree ==
    \A i \in EqualRebalances :
        LET e == rebalanceLog[i]
        IN  /\ global_rank \in DOMAIN e.perRank
            /\ e.perRank[global_rank].newInSize = e.newInSize
            /\ e.perRank[global_rank].inSplit = e.after.inSplit
            /\ \A r \in DOMAIN e.perRank : e.perRank[r] = e.perRank[global_rank]

\* two ranks of the group recorded different in_msg_elems for the op
C17_Witness ==
    \E i \in EqualRebalances :
        \E r1, r2 \in DOMAIN rebalanceLog[i].perRank :
            /\ rebalanceLog[i].contribs[r1] # rebalanceLog[i].contribs[r2]
            /\ rebalanceLog[i].newInSize > 0

\* the warm-up dispatches of all_to_allv, as positions of the trace
WarmUpAllToAllv(log) ==
    {log[i].seqnum + 1 : i \in {j \in DOMAIN log : /\ log[j].pass = "warmup"
                                                   /\ log[j].comms = "all_to_allv"}}
RebalancedAt(log) == {log[i].index : i \in DOMAIN log}

C18_Step ==
    /\ rebalanceLog' # rebalanceLog =>
           /\ pc = "warmUpBench" /\ do_warm_up /\ rebalance_policy # ""
           /\ Len(rebalanceLog') = Len(rebalanceLog) + 1
           /\ SubSeq(rebalanceLog', 1, Len(rebalanceLog)) = rebalanceLog
           /\ LET e == rebalanceLog'[Len(rebalanceLog')]
              IN  /\ e.index = cnt + 1
                  /\ e.index \notin RebalancedAt(rebalanceLog)
                  /\ e.before = comms_trace[e.index]
                  /\ paramToCommName(e.before.comms) = "all_to_allv"
                  /\ comms_trace'[e.index] = e.after
    /\ rebalance_policy # "" =>
           WarmUpAllToAllv(dispatchLog') = RebalancedAt(rebalanceLog')
    /\ pc \in {"replayTrace", "done"} => rebalanceLog' = rebalanceLog
    /\ ~do_warm_up => rebalanceLog' = <<>>

\* C18: over a whole run the rebalance policy is invoked exactly once for
\* each all_to_allv op that warm-up does not skip, during warm-up and on the
\* record of the trace itself; no measured replay invokes it, and without
\* warm-up no record is rebalanced.
C18_RebalancedOnceInWarmUp == [][C18_Step]_vars

\* a run of two measured replays has ended whose warm-up rebalanced one
\* all_to_allv and skipped or left alone the other ops; the replays
\* dispatched the rebalanced record
C18_Witness ==
    /\ pc = "done" /\ num_replays >= 2 /\ ~shrink
    /\ Len(rebalanceLog) = 1
    /\ Len(comms_trace) > 2
    /\ \E i \in DOMAIN dispatchLog :
           /\ dispatchLog[i].pass = "replay" /\ dispatchLog[i].iter = 1
           /\ dispatchLog[i].seqnum + 1 = rebalanceLog[1].index
           /\ dispatchLog[i].inSplit = rebalanceLog[1].after.inSplit
           /\ rebalanceLog[1].policy = "equal"
           /\ rebalanceLog[1].after # rebalanceLog[1].before

\* two dispatches of one replay that follow each other, both with a recorded
\* start time, the second not recorded before the first
ConsecutivePaced(i) ==
    /\ i + 1 \in DOMAIN paceLog
    /\ paceLog[i].iter = paceLog[i + 1].iter
    /\ paceLog[i].startTimeNs # None /\ paceLog[i + 1].startTimeNs # None
    /\ paceLog[i].startTimeNs <= paceLog[i + 1].startTimeNs

\* C20: with use_timestamp on, an op is dispatched only once more time than
\* its start_time_ns has passed since the replay began; two consecutive ops
\* with t1 <= t2 are dispatched at least (t2 - t1) - LOOP_TIMER apart when
\* the first was dispatched within one LOOP_TIMER of t1.
C20_PacedFromReplayStart ==
    use_timestamp =>
        /\ \A i \in DOMAIN paceLog :
               paceLog[i].startTimeNs # None => paceLog[i].at > paceLog[i].startTimeNs
        /\ \A i \in DOMAIN paceLog :
               (ConsecutivePaced(i)
                    /\ paceLog[i].at - paceLog[i].startTimeNs <= LOOP_TIMER_S) =>
                   paceLog[i + 1].at - paceLog[i].at >=
                       (paceLog[i + 1].startTimeNs - paceLog[i].startTimeNs) - LOOP_TIMER_S

\* the first op was on time, the second had to wait for its timestamp
C20_Witness ==
    /\ use_timestamp
    /\ \E i \in DOMAIN paceLog :
           /\ ConsecutivePaced(i)
           /\ paceLog[i].at - paceLog[i].startTimeNs <= LOOP_TIMER_S
           /\ paceLog[i + 1].startTimeNs > paceLog[i].startTimeNs
           /\ paceLog[i + 1].arrived <= paceLog[i + 1].startTimeNs

\* C20 as stated: the two dispatches are at least (t2 - t1) - LOOP_TIMER
\* apart whatever time preparation takes.
C20_GapWhateverPrepTakes ==
    use_timestamp =>
        \A i \in DOMAIN paceLog :
            ConsecutivePaced(i) =>
                paceLog[i + 1].at - paceLog[i].at >=
                    (paceLog[i + 1].startTimeNs - paceLog[i].startTimeNs) - LOOP_TIMER_S

\* the trace holds an init record without global_ranks
HasRanklessInit ==
    \E i \in DOMAIN in_trace :
        /\ lower(in_trace[i].comms) = "init"
        /\ "global_ranks" \notin DOMAIN in_trace[i]

\* C21: a trace with an init record that lacks global_ranks fails while it
\* is loaded: no record list is produced and the backend is never
\* initialized.
C21_RanklessInitRejected ==
    HasRanklessInit =>
        /\ pc \in {"readTrace", "error"}
        /\ comms_trace = <<>>
        /\ ~backend.initialized

\* a replay step over one record of the trace
ReplayStep == pc = "replayTrace" /\ pc' = "replayTrace" /\ cnt' = cnt + 1

\* C22: an entry of the registry waitObjIds stays there while ops other
\* than the wait carrying its req_id are replayed.
C22_Step ==
    ReplayStep =>
        LET op == nextComm(comms_trace, cnt)
        IN  \A r \in DOMAIN collectiveArgs.waitObjIds :
                ~(paramToCommName(op.comms) = "wait" /\ op.req = r)
                    => r \in DOMAIN collectiveArgs'.waitObjIds
C22_EntryKeptUntilItsWait == [][C22_Step]_vars

\* the backend calls of the step just taken that are of the given name
CallsNamed(calls, name) == SelectSeq(calls, LAMBDA c : c.call = name)

\* C23: in non-blocking replay the step that replays a non-wait op waits on
\* no handle; the op is only posted.
C23_Step ==
    (ReplayStep /\ ~is_blocking
        /\ paramToCommName(nextComm(comms_trace, cnt).comms) # "wait")
        => CallsNamed(backend'.calls, "handle.wait") = <<>>
C23_PostOnly == [][C23_Step]_vars

\* the names of a sequence of backend calls
CallNames(calls) == [i \in DOMAIN calls |-> calls[i].call]

\* sync_barrier as the backend sees it
BarrierCalls == <<"barrier", "complete_accel_ops", "device_sync">>

\* the backend work the dispatch of a kind issues by itself (a wait on an
\* empty queue and pt2pt issue none)
DispatchCalls(collName) ==
    IF collName \in {"wait", "pt2pt"} THEN <<>> ELSE <<collName>>

\* C24: a blocking replay step that measures an op makes exactly the calls
\* pre-barrier, dispatch, complete_accel_ops with device sync, post-barrier;
\* a non-blocking step issues no barrier besides a barrier op itself.
C24_Step ==
    (ReplayStep /\ ~lastOp'.skipped) =>
        LET collName == paramToCommName(nextComm(comms_trace, cnt).comms)
        IN  IF is_blocking
            THEN /\ Len(dispatchLog') = Len(dispatchLog) + 1
                 /\ CallNames(backend'.calls) =
                        BarrierCalls \o DispatchCalls(collName)
                            \o <<"complete_accel_ops", "device_sync">>
                            \o BarrierCalls
            ELSE Len(CallsNamed(backend'.calls, "barrier")) =
                     IF collName = "barrier" THEN 1 ELSE 0
C24_BarrierBracket == [][C24_Step]_vars

\* the same for ops of kinds the backend supports
C24_StepSupported ==
    (ReplayStep
        /\ paramToCommName(nextComm(comms_trace, cnt).comms) \in collectiveFunc)
        => C24_Step
C24_BarrierBracketSupported == [][C24_StepSupported]_vars

\* the sizes and splits one preparation was made with
PreparedSizes(e) == <<e.inMsgSize, e.inSplit, e.outMsgSize, e.outSplit>>

\* the sizes and splits of the record a preparation found
RecordedSizes(r) == <<r.inMsgSize, r.inSplit, r.outMsgSize, r.outSplit>>

\* C25: with auto-shrink every preparation of an op, in warm-up and in each
\* replay, finds the same recorded sizes and yields the same element counts
\* and splits.
C25_SamePreparationEachTime ==
    shrink =>
        \A i, j \in DOMAIN dispatchLog :
            dispatchLog[i].seqnum = dispatchLog[j].seqnum =>
                /\ PreparedSizes(dispatchLog[i]) = PreparedSizes(dispatchLog[j])
                /\ RecordedSizes(dispatchLog[i].before)
                       = RecordedSizes(dispatchLog[j].before)

\* C26: without auto-shrink, a warm-up dispatch of an all_to_allv that was
\* rebalanced uses the element counts and splits the policy wrote into the
\* record.
C26_WarmUpUsesRebalanced ==
    ~shrink =>
        \A i \in DOMAIN rebalanceLog : \A j \in DOMAIN dispatchLog :
            (dispatchLog[j].pass = "warmup"
                /\ dispatchLog[j].seqnum + 1 = rebalanceLog[i].index)
                => PreparedSizes(dispatchLog[j])
                       = RecordedSizes(rebalanceLog[i].after)

\* C27: with no rebalance policy no step of the warm-up pass changes a
\* record of the trace, with or without auto-shrink.
C27_Step ==
    (pc = "warmUpBench" /\ rebalance_policy = "") => comms_trace' = comms_trace
C27_WarmUpLeavesTrace == [][C27_Step]_vars

\* warm-up is over and the first replay is about to start; with auto-shrink
\* an op was warmed up with sizes other than the recorded ones, and the
\* record still holds what the warm-up found
C27_Witness ==
    /\ pc = "replayTrace" /\ replayIter = 0 /\ cnt = 0
    /\ shrink /\ rebalance_policy = ""
    /\ \E j \in DOMAIN dispatchLog :
           /\ dispatchLog[j].pass = "warmup"
           /\ PreparedSizes(dispatchLog[j]) # RecordedSizes(dispatchLog[j].before)
           /\ comms_trace[dispatchLog[j].seqnum + 1] = dispatchLog[j].before

\* a warm-up step over an all_to_allv record under a policy that is neither
\* empty nor "equal"
UnknownPolicyStep ==
    /\ pc = "warmUpBench" /\ do_warm_up /\ cnt < PassLen
    /\ rebalance_policy \notin {"", "equal"}
    /\ paramToCommName(nextComm(comms_trace, cnt).comms) = "all_to_allv"
    /\ cnt' = cnt + 1

\* C28: under an unrecognized policy a warm-up step over an all_to_allv
\* leaves the trace unchanged, makes no all_reduce, raises no error and,
\* unless the op is skipped, dispatches the op.
C28_Step ==
    /\ UnknownPolicyStep =>
           /\ comms_trace' = comms_trace
           /\ CallsNamed(backend'.calls, "all_reduce") = <<>>
           /\ ~lastOp'.skipped =>
                  /\ Len(dispatchLog') = Len(dispatchLog) + 1
                  /\ dispatchLog'[Len(dispatchLog')].comms = "all_to_allv"
                  /\ dispatchLog'[Len(dispatchLog')].pass = "warmup"
                  /\ CallsNamed(backend'.calls, "all_to_allv") # <<>>
    /\ (rebalance_policy \notin {"", "equal"} /\ pc = "warmUpBench") => pc' # "error"
C28_UnknownPolicyIgnored == [][C28_Step]_vars

\* an all_to_allv with unequal splits was warmed up under an unknown policy
C28_Witness ==
    /\ rebalance_policy \notin {"", "equal"}
    /\ pc = "warmUpBench"
    /\ lastOp.pass = "warmup" /\ ~lastOp.skipped
    /\ \E j \in DOMAIN dispatchLog :
           /\ dispatchLog[j].seqnum = lastOp.seqnum
           /\ dispatchLog[j].comms = "all_to_allv"
           /\ dispatchLog[j].inSplit = <<1, 2>>
    /\ \E i \in DOMAIN rebalanceLog : rebalanceLog[i].seqnum = lastOp.seqnum

\* the longest the pacing loop can overshoot a start time it waited for:
\* its last turn sleeps LOOP_TIMER_S or spins once, either with jitter
PaceOvershoot == LOOP_TIMER_S + MaxJitter

\* C29: with use_timestamp on, an op carrying start time t is dispatched
\* only after t ticks of the replay iteration have passed, and when it had
\* to wait, no later than the loop's last turn allows; an op without a start
\* time is dispatched as soon as it is prepared; the ops are dispatched one
\* for each measured record, in trace order.
C29_PacedInOrder ==
    use_timestamp =>
        /\ \A i \in DOMAIN paceLog :
               LET e == paceLog[i]
               IN  IF e.startTimeNs = None THEN e.at = e.arrived
                   ELSE /\ e.at >= e.arrived
                        /\ ~(e.at < e.startTimeNs)
                        /\ e.arrived > e.startTimeNs => e.at = e.arrived
                        /\ e.at > e.arrived => e.at <= e.startTimeNs + PaceOvershoot
        /\ Len(paceLog) = Len(traceWithPerf)
        /\ \A i \in DOMAIN paceLog :
               paceLog[i].seqnum = traceWithPerf[i].comm.seqnum
        /\ \A i, j \in DOMAIN paceLog :
               (i < j /\ paceLog[i].iter = paceLog[j].iter)
                   => paceLog[i].seqnum < paceLog[j].seqnum
        /\ (pc = "replayTrace" /\ replayIter < num_replays) =>
               {paceLog[i].seqnum : i \in {k \in DOMAIN paceLog :
                                              paceLog[k].iter = replayIter}}
                   = {comms_trace[k].seqnum : k \in 1..cnt}

\* an op waited for its start time, and the op after it, which carries none,
\* went out as soon as it was prepared
C29_Witness ==
    /\ use_timestamp
    /\ \E i \in DOMAIN paceLog :
           /\ i + 1 \in DOMAIN paceLog
           /\ paceLog[i].startTimeNs # None
           /\ paceLog[i].arrived <= paceLog[i].startTimeNs
           /\ paceLog[i].at > paceLog[i].startTimeNs
           /\ paceLog[i + 1].startTimeNs = None
           /\ paceLog[i + 1].iter = paceLog[i].iter

\* C30: with colls_per_batch = N > 0, every batch latency was appended by
\* the N-th wait since the batch opened, its batch_begin was taken once, when
\* the first op of the batch was replayed, and its value is the time from
\* then to the end of that wait; no open batch has seen N waits.
C30_BatchCoversAllOps ==
    colls_per_batch > 0 =>
        /\ Len(batchLat) = Len(batchLog)
        /\ \A i \in DOMAIN batchLog :
               LET e == batchLog[i]
               IN  /\ batchLat[i] = e.batch_latency
                   /\ e.waits = colls_per_batch
                   /\ e.taken = 1
                   /\ e.begin = e.firstAt
                   /\ e.batch_latency = (e.end - e.firstAt) * MsPerTick
        /\ batchFirst.waits < colls_per_batch

\* a step that ends the warm-up pass or a measured replay iteration
PassEnds ==
    \/ pc = "warmUpBench" /\ pc' = "replayTrace"
    \/ pc = "replayTrace" /\ replayIter' = replayIter + 1

\* C31: the step that ends the warm-up pass or a replay iteration resets the
\* group to the default group and makes one barrier on it, followed by the
\* completion; no op of the next iteration is dispatched before it; the run
\* ends after exactly num_replays iterations.
C31_Step ==
    /\ PassEnds =>
           /\ collectiveArgs'.group = get_default_group
           /\ CallNames(SelectSeq(backend'.calls,
                                  LAMBDA c : c.call # "handle.wait")) = BarrierCalls
           /\ backend'.calls[1].group = get_default_group
           /\ cnt' = 0
           /\ dispatchLog' = dispatchLog
    /\ replayIter' # replayIter =>
           /\ replayIter' = replayIter + 1 \/ (pc = "warmUpBench" /\ replayIter' = 0)
           /\ replayIter' <= num_replays
    /\ (ReplayStep /\ cnt = 0 /\ backend'.calls # <<>>) =>
           collectiveArgs.group = get_default_group
    /\ (pc = "replayTrace" /\ pc' = "done") =>
           /\ replayIter = num_replays
           /\ cnt = 0
           /\ collectiveArgs.group = get_default_group
C31_ResetAndBarrierBetweenPasses == [][C31_Step]_vars

\* a replay iteration has just ended; the op it ended with was dispatched on
\* a group other than the default group
C31_Witness ==
    /\ pc = "replayTrace" /\ cnt = 0 /\ replayIter >= 1
    /\ lastOp.pass = "replay" /\ lastOp.dispatched
    /\ \E i \in DOMAIN comms_trace :
           /\ comms_trace[i].seqnum = lastOp.seqnum
           /\ comms_trace[i].pgId # None
           /\ collectiveArgs.groups[comms_trace[i].pgId] # get_default_group
    /\ collectiveArgs.group = get_default_group

\* the canonical kind of a record of the input trace
RawKind(curComm) == paramToCommName(lower(curComm.comms))

\* C32: the normalizer asks for in_split / out_split only in records of
\* kind all_to_allv: it never ends in KeyError on a record of another kind
\* that carries its size fields, and the records of other kinds it yields
\* carry no splits.
C32_SplitsOnlyForAllToAllv ==
    /\ (pc = "error" /\ err = "KeyError") =>
           \/ RawKind(in_trace[cnt + 1]) = "all_to_allv"
           \/ ~({"in_msg_size", "out_msg_size", "dtype"} \subseteq DOMAIN in_trace[cnt + 1])
    /\ \A i \in DOMAIN newCommsTrace :
           newCommsTrace[i].comms # "all_to_allv" =>
               /\ newCommsTrace[i].inSplit = NoneSeq
               /\ newCommsTrace[i].outSplit = NoneSeq

\* the recorded groups that fit the live world
FittingGroups ==
    {groupRanks[i].pgId : i \in {j \in DOMAIN groupRanks :
                                    Len(groupRanks[j].ranks) <= WorldSize}}

\* the recorded groups, whatever their size
RecordedGroups == {groupRanks[i].pgId : i \in DOMAIN groupRanks}

\* C33: once the backend is initialized, without auto-shrink every recorded
\* group has its handle in the group table; with auto-shrink every recorded
\* group that fits the live world has; no op fails for the lack of a group.
C33_OnlyOversizeGroupDiscarded ==
    backend.initialized =>
        /\ ~shrink => RecordedGroups \subseteq DOMAIN collectiveArgs.groups
        /\ shrink => FittingGroups \subseteq DOMAIN collectiveArgs.groups
        /\ err # "KeyError"

\* the calls of replaySingle that prepared an op with tensor reuse requested
ReusingCalls ==
    {i \in DOMAIN singleLog : singleLog[i].prepared /\ ~singleLog[i].regenerate}

\* C34: for every eg_id, 0 included, a preparation with tensor reuse
\* requested stores the pair it allocates under the eg_id when the cache has
\* none, returns the stored pair when it has one, and leaves the entries of
\* other eg_ids alone.
C34_CacheReusesStoredPair ==
    \A i \in ReusingCalls :
        LET e == singleLog[i]
        IN  /\ e.eg_id \in DOMAIN e.after
            /\ e.after[e.eg_id].id = e.pair
            /\ e.eg_id \in DOMAIN e.before => e.pair = e.before[e.eg_id].id
            /\ \A k \in DOMAIN e.before : k # e.eg_id => e.after[k] = e.before[k]
            /\ DOMAIN e.after = DOMAIN e.before \cup {e.eg_id}

\* the op is not skipped by replayTrace: its kind is allowed and this rank
\* is in its group
NotSkipped(curComm) ==
    /\ paramToCommName(curComm.comms) \in allowList
    /\ getCommGroupInfo(collectiveArgs, curComm, groupRanks, shrink, global_rank).rank # -1

\* the seqnums of the ops among the first n of a pass that are not skipped
NotSkippedSeqnums(n) ==
    LET kept == SelectSeq(Take(Take(comms_trace, PassLen), n), NotSkipped)
    IN  [i \in DOMAIN kept |-> kept[i].seqnum]

RECURSIVE Repeated(_, _)
Repeated(s, n) == IF n = 0 THEN <<>> ELSE s \o Repeated(s, n - 1)

\* the seqnums of the ops replayed so far that were not skipped
ExpectedRecords ==
    Repeated(NotSkippedSeqnums(PassLen), replayIter)
        \o (IF replayIter < num_replays THEN NotSkippedSeqnums(cnt) ELSE <<>>)

\* the latency_us of the output records of kind k, in order
RecordedLatencies(k) ==
    LET recs == SelectSeq(traceWithPerf,
                          LAMBDA r : paramToCommName(r.comm.comms) = k)
    IN  [i \in DOMAIN recs |-> recs[i].latency_us]

ResolvedGroup(curComm) ==
    IF curComm.pgId # None /\ ~shrink
    THEN collectiveArgs.groups[curComm.pgId]
    ELSE get_default_group

\* C36: every barrier and every collective a replay step issues for a
\* measured op, wait and barrier records included, is issued on the process
\* group resolved for that op, whatever group the op replayed before used.
C36_Step ==
    (ReplayStep /\ ~lastOp'.skipped) =>
        LET curComm == nextComm(comms_trace, cnt)
            issued == GroupCalls(backend'.calls)
        IN  \A i \in DOMAIN issued : issued[i].group = ResolvedGroup(curComm)
C36_CallsUseResolvedGroup == [][C36_Step]_vars

\* C36 for the ops that carry buffers (every kind but wait and barrier)
C36_StepData ==
    (ReplayStep /\ paramToCommName(nextComm(comms_trace, cnt).comms)
                       \notin {"wait", "barrier"})
        => C36_Step
C36_DataCallsUseResolvedGroup == [][C36_StepData]_vars

\* every rank has returned from the last barrier of its run
RanksDone ==
    \A r \in Ranks : rankState[r].at = "done" /\ rankState[r].blocked = <<>>

\* some rank can go on: it is blocked in no call, or the ranks of its group
\* are all blocked in the call it is blocked in
SomeRankProceeds ==
    \E r \in Ranks :
        \/ rankState[r].blocked = <<>> /\ rankState[r].at \in {"runBench", "replayTrace"}
        \/ rankState[r].blocked # <<>> /\ AllBlockedIn(Head(rankState[r].blocked))

\* C37: when all ranks replay the same trace in blocking mode, no rank is
\* left blocked in a barrier or a collective that the other ranks of its
\* group never enter: while a rank has not finished, some rank can go on.
C37_NoRankBlockedForever ==
    (pc = "warmUpBench" /\ ~RanksDone) => SomeRankProceeds

\* the trace has a wait or barrier record right after an op on a sub-group
CtrlAfterSubGroup ==
    \E i \in 2..Len(comms_trace) :
        /\ paramToCommName(comms_trace[i].comms) \in {"wait", "barrier"}
        /\ paramToCommName(comms_trace[i - 1].comms) # "init"
        /\ comms_trace[i - 1].pgId # None

\* C37 for the runs in which no wait or barrier record is replayed on the
\* sub-group of the op before it
C37_NoRankBlockedOnResolvedGroups ==
    (shrink \/ ~CtrlAfterSubGroup) => C37_NoRankBlockedForever

\* the req_ids the registry waitObjIds holds an entry for
Registered(ca) == DOMAIN ca.waitObjIds

\* what the registry holds when runComms returns from an op: the req_id of
\* the op if it was posted in non-blocking mode, is not a wait and carries
\* one, and nothing otherwise
RegisteredAfter(curComm) ==
    IF ~is_blocking /\ paramToCommName(curComm.comms) # "wait" /\ curComm.req # None
    THEN {curComm.req} ELSE {}

\* C38: when runComms returns, in either mode, the queue waitObj is empty and
\* the registry waitObjIds holds no entry but the one of the op just posted,
\* and that one only in non-blocking mode for an op that is not a wait and
\* carries a req_id; in blocking mode the registry is empty in every state.
C38_Step ==
    /\ (ReplayStep /\ ~lastOp'.skipped) =>
           /\ collectiveArgs'.waitObj = <<>>
           /\ Registered(collectiveArgs') = RegisteredAfter(nextComm(comms_trace, cnt))
           /\ Cardinality(Registered(collectiveArgs')) <= 1
    /\ is_blocking => Registered(collectiveArgs) = {} /\ Registered(collectiveArgs') = {}
====
